---- MODULE Spec2Model ----
(***************************************************************************)
(* Pushover MCP server: the JWT authentication subsystem of auth.go, its   *)
(* wiring in http_server.go and the tool guard of main.go.                 *)
(*                                                                         *)
(* Go strings and byte slices are sequences of bytes (0..255).  Error      *)
(* values are TLA+ strings, "" standing for a nil error.                   *)
(***************************************************************************)
EXTENDS Integers, Sequences, FiniteSets, Bags, TLC

(***************************************************************************)
(* package strings                                                         *)
(***************************************************************************)
HasPrefix(s, prefix) ==
    Len(s) >= Len(prefix) /\ SubSeq(s, 1, Len(prefix)) = prefix

TrimPrefix(s, prefix) ==
    IF HasPrefix(s, prefix) THEN SubSeq(s, Len(prefix) + 1, Len(s)) ELSE s

\* strings.Split(s, sep) for a one-byte separator: always at least one part.
RECURSIVE Split(_, _)
Split(s, sep) ==
    IF \E i \in 1..Len(s) : s[i] = sep
    THEN LET i == CHOOSE k \in 1..Len(s) :
                      s[k] = sep /\ \A j \in 1..(k - 1) : s[j] # sep
         IN  <<SubSeq(s, 1, i - 1)>> \o Split(SubSeq(s, i + 1, Len(s)), sep)
    ELSE <<s>>

\* The decimal digits of n >= 0.
Digits(n) ==
    LET pow10 == <<1, 10, 100, 1000, 10000, 100000, 1000000, 10000000,
                   100000000, 1000000000>>
        k == IF n = 0 THEN 1
             ELSE CHOOSE j \in 1..10 :
                      pow10[j] <= n /\ \A m \in (j + 1)..10 : pow10[m] > n
    IN  [i \in 1..k |-> 48 + ((n \div pow10[k + 1 - i]) % 10)]

\* strconv.Itoa
Itoa(n) == IF n < 0 THEN <<45>> \o Digits(0 - n) ELSE Digits(n)

(***************************************************************************)
(* package encoding/base64: RawURLEncoding (URL alphabet, no padding, not  *)
(* strict: the unused low bits of the last character are not checked).     *)
(***************************************************************************)
\* "ABCDEFGHIJKLMNOPQRSTUVWXYZabcdefghijklmnopqrstuvwxyz0123456789-_"
encodeURL ==
    <<65, 66, 67, 68, 69, 70, 71, 72, 73, 74, 75, 76, 77, 78, 79, 80, 81, 82,
      83, 84, 85, 86, 87, 88, 89, 90, 97, 98, 99, 100, 101, 102, 103, 104, 105,
      106, 107, 108, 109, 110, 111, 112, 113, 114, 115, 116, 117, 118, 119,
      120, 121, 122, 48, 49, 50, 51, 52, 53, 54, 55, 56, 57, 45, 95>>

\* The decode map built from encodeURL: the 6-bit value of a character, 255
\* for a character outside the alphabet ('=' included: there is no padding).
decodeMap(c) ==
    IF \E k \in 1..64 : encodeURL[k] = c
    THEN (CHOOSE k \in 1..64 : encodeURL[k] = c) - 1
    ELSE 255

EncodeToString(src) ==
    LET n      == Len(src)
        rem    == n % 3
        outLen == (n \div 3) * 4 + (IF rem = 0 THEN 0 ELSE rem + 1)
        b(k)   == IF k <= n THEN src[k] ELSE 0
        sextet(i) ==
            LET g == (i - 1) \div 4
                p == (i - 1) % 4
            IN  CASE p = 0 -> b(3 * g + 1) \div 4
                  [] p = 1 -> (b(3 * g + 1) % 4) * 16 + (b(3 * g + 2) \div 16)
                  [] p = 2 -> (b(3 * g + 2) % 16) * 4 + (b(3 * g + 3) \div 64)
                  [] p = 3 -> b(3 * g + 3) % 64
    IN  [i \in 1..outLen |-> encodeURL[sextet(i) + 1]]

CorruptInputError(pos) == "illegal base64 data at input byte " \o ToString(pos)

\* DecodeString: [err, val].  '\r' and '\n' are skipped; a character outside
\* the alphabet, or a single dangling character, is a CorruptInputError.
DecodeString(s) ==
    LET isNL(c) == c = 10 \/ c = 13
        bad     == {i \in 1..Len(s) : ~isNL(s[i]) /\ decodeMap(s[i]) = 255}
        clean   == SelectSeq(s, LAMBDA c : ~isNL(c))
        m       == Len(clean)
        rem     == m % 4
        outLen  == (m \div 4) * 3 + (IF rem = 0 THEN 0 ELSE rem - 1)
        v(k)    == IF k <= m THEN decodeMap(clean[k]) ELSE 0
        byte(i) ==
            LET g == (i - 1) \div 3
                p == (i - 1) % 3
            IN  CASE p = 0 -> v(4 * g + 1) * 4 + (v(4 * g + 2) \div 16)
                  [] p = 1 -> (v(4 * g + 2) % 16) * 16 + (v(4 * g + 3) \div 4)
                  [] p = 2 -> (v(4 * g + 3) % 4) * 64 + v(4 * g + 4)
    IN  IF bad # {}
        THEN [err |-> CorruptInputError(
                          (CHOOSE i \in bad : \A j \in bad : i <= j) - 1),
              val |-> <<>>]
        ELSE IF rem = 1
        THEN [err |-> CorruptInputError(Len(s) - 1), val |-> <<>>]
        ELSE [err |-> "", val |-> [i \in 1..outLen |-> byte(i)]]

(***************************************************************************)
(* package unicode/utf8                                                    *)
(***************************************************************************)
\* The length of the well-formed UTF-8 sequence that starts at s[i], 0 when
\* s[i] starts none (DecodeRune then yields RuneError with size 1).
runeLen(s, i) ==
    LET n       == Len(s) - i + 1
        c(k)    == s[i + k]
        cont(x) == x >= 128 /\ x <= 191
        b0      == s[i]
    IN  CASE b0 < 128 -> 1
          [] b0 >= 194 /\ b0 <= 223 /\ n >= 2 /\ cont(c(1)) -> 2
          [] b0 = 224 /\ n >= 3 /\ c(1) >= 160 /\ c(1) <= 191 /\ cont(c(2)) -> 3
          [] b0 >= 225 /\ b0 <= 239 /\ b0 # 237 /\ n >= 3
                /\ cont(c(1)) /\ cont(c(2)) -> 3
          [] b0 = 237 /\ n >= 3 /\ c(1) >= 128 /\ c(1) <= 159 /\ cont(c(2)) -> 3
          [] b0 = 240 /\ n >= 4 /\ c(1) >= 144 /\ c(1) <= 191
                /\ cont(c(2)) /\ cont(c(3)) -> 4
          [] b0 >= 241 /\ b0 <= 243 /\ n >= 4
                /\ cont(c(1)) /\ cont(c(2)) /\ cont(c(3)) -> 4
          [] b0 = 244 /\ n >= 4 /\ c(1) >= 128 /\ c(1) <= 143
                /\ cont(c(2)) /\ cont(c(3)) -> 4
          [] OTHER -> 0

\* utf8.RuneError, U+FFFD, encoded.
RuneErrorBytes == <<239, 191, 189>>

\* utf8.AppendRune: a surrogate or out-of-range code point becomes U+FFFD.
EncodeRune(r) ==
    CASE r < 128 -> <<r>>
      [] r >= 128 /\ r < 2048 -> <<192 + (r \div 64), 128 + (r % 64)>>
      [] (r >= 55296 /\ r <= 57343) \/ r > 1114111 -> RuneErrorBytes
      [] r >= 2048 /\ r < 65536 ->
            <<224 + (r \div 4096), 128 + ((r \div 64) % 64), 128 + (r % 64)>>
      [] OTHER -> <<240 + (r \div 262144), 128 + ((r \div 4096) % 64),
                    128 + ((r \div 64) % 64), 128 + (r % 64)>>

(***************************************************************************)
(* package encoding/json: Marshal                                          *)
(***************************************************************************)
hex == <<48, 49, 50, 51, 52, 53, 54, 55, 56, 57, 97, 98, 99, 100, 101, 102>>

\* appendString with escapeHTML: the JSON text of a Go string.  Bytes that
\* are not well-formed UTF-8 are written as the escape of U+FFFD.
RECURSIVE appendString(_, _)
appendString(s, i) ==
    IF i > Len(s) THEN <<34>>
    ELSE LET b == s[i] IN
         IF b < 128
         THEN (CASE b = 92 \/ b = 34 -> <<92, b>>
                 [] b = 8  -> <<92, 98>>
                 [] b = 12 -> <<92, 102>>
                 [] b = 10 -> <<92, 110>>
                 [] b = 13 -> <<92, 114>>
                 [] b = 9  -> <<92, 116>>
                 [] b < 32 \/ b = 38 \/ b = 60 \/ b = 62 ->
                       <<92, 117, 48, 48, hex[(b \div 16) + 1], hex[(b % 16) + 1]>>
                 [] OTHER -> <<b>>) \o appendString(s, i + 1)
         ELSE LET size == runeLen(s, i) IN
              IF size = 0
              THEN <<92, 117, 102, 102, 102, 100>> \o appendString(s, i + 1)
              ELSE IF size = 3 /\ b = 226 /\ s[i + 1] = 128
                      /\ (s[i + 2] = 168 \/ s[i + 2] = 169)
              THEN <<92, 117, 50, 48, 50, hex[(s[i + 2] % 16) + 1]>>
                       \o appendString(s, i + 3)
              ELSE SubSeq(s, i, i + size - 1) \o appendString(s, i + size)

MarshalString(s) == <<34>> \o appendString(s, 1)

(***************************************************************************)
(* package encoding/json: the scanner and decoder, for the JSON values a   *)
(* payload can hold.  A parse result is [err, pos, val]; a value is tagged *)
(* by its field t.                                                         *)
(***************************************************************************)
ErrUnexpectedEnd == "unexpected end of JSON input"
ErrInvalidChar   == "invalid character in JSON input"

isSpace(c) == c = 32 \/ c = 9 \/ c = 10 \/ c = 13
isDigit(c) == c >= 48 /\ c <= 57
isHex(c)   == isDigit(c) \/ (c >= 97 /\ c <= 102) \/ (c >= 65 /\ c <= 70)
hexVal(c)  == IF isDigit(c) THEN c - 48 ELSE IF c >= 97 THEN c - 87 ELSE c - 55

RECURSIVE skipSpace(_, _)
skipSpace(s, i) ==
    IF i <= Len(s) /\ isSpace(s[i]) THEN skipSpace(s, i + 1) ELSE i

\* getu4: the code unit of \uXXXX at s[i..i+5], -1 when it is not one.
getu4(s, i) ==
    IF i + 5 <= Len(s) /\ s[i] = 92 /\ s[i + 1] = 117
       /\ \A k \in 2..5 : isHex(s[i + k])
    THEN hexVal(s[i + 2]) * 4096 + hexVal(s[i + 3]) * 256
         + hexVal(s[i + 4]) * 16 + hexVal(s[i + 5])
    ELSE -1

\* The body of a string literal from s[i] on (the opening quote is read):
\* unquote, coercing to well-formed UTF-8.
RECURSIVE scanString(_, _, _)
scanString(s, i, acc) ==
    IF i > Len(s) THEN [err |-> ErrUnexpectedEnd, pos |-> i, val |-> acc]
    ELSE LET c == s[i] IN
      CASE c = 34 -> [err |-> "", pos |-> i + 1, val |-> acc]
        [] c < 32 -> [err |-> ErrInvalidChar, pos |-> i, val |-> acc]
        [] c = 92 ->
             IF i + 1 > Len(s)
             THEN [err |-> ErrUnexpectedEnd, pos |-> i + 1, val |-> acc]
             ELSE LET e == s[i + 1] IN
               CASE e = 34 \/ e = 92 \/ e = 47 ->
                        scanString(s, i + 2, Append(acc, e))
                 [] e = 98  -> scanString(s, i + 2, Append(acc, 8))
                 [] e = 102 -> scanString(s, i + 2, Append(acc, 12))
                 [] e = 110 -> scanString(s, i + 2, Append(acc, 10))
                 [] e = 114 -> scanString(s, i + 2, Append(acc, 13))
                 [] e = 116 -> scanString(s, i + 2, Append(acc, 9))
                 [] e = 117 ->
                      LET u  == getu4(s, i)
                          u2 == getu4(s, i + 6)
                      IN  IF u < 0
                          THEN [err |-> IF i + 5 > Len(s) THEN ErrUnexpectedEnd
                                        ELSE ErrInvalidChar,
                                pos |-> i, val |-> acc]
                          ELSE IF u >= 55296 /\ u <= 56319
                                  /\ u2 >= 56320 /\ u2 <= 57343
                          THEN scanString(s, i + 12, acc \o EncodeRune(
                                   65536 + (u - 55296) * 1024 + (u2 - 56320)))
                          ELSE scanString(s, i + 6, acc \o EncodeRune(u))
                 [] OTHER -> [err |-> ErrInvalidChar, pos |-> i + 1, val |-> acc]
        [] c >= 128 ->
             LET size == runeLen(s, i) IN
             IF size = 0 THEN scanString(s, i + 1, acc \o RuneErrorBytes)
             ELSE scanString(s, i + size, acc \o SubSeq(s, i, i + size - 1))
        [] OTHER -> scanString(s, i + 1, Append(acc, c))

RECURSIVE scanDigits(_, _, _)
scanDigits(s, i, n) ==
    IF i <= Len(s) /\ isDigit(s[i])
    THEN scanDigits(s, i + 1, n * 10 + (s[i] - 48))
    ELSE [pos |-> i, n |-> n]

\* A number literal at s[i]: -? (0 | [1-9][0-9]*) frac? exp?.  isInt says
\* that it has neither fraction nor exponent (what strconv.ParseInt takes).
scanNumber(s, i) ==
    LET bad(p) == [err |-> IF p > Len(s) THEN ErrUnexpectedEnd ELSE ErrInvalidChar,
                   pos |-> p, val |-> [t |-> "number", isInt |-> FALSE, n |-> 0]]
        digits(p) == scanDigits(s, p, 0)
        exponent(neg, int, hasF, hasE, m1, exp) ==
            IF hasE /\ exp.pos = m1 THEN bad(m1)
            ELSE [err |-> "", pos |-> exp.pos,
                  val |-> [t |-> "number", isInt |-> ~hasF /\ ~hasE,
                           n |-> IF neg THEN 0 - int.n ELSE int.n]]
        fraction(neg, int, hasF, frac) ==
            LET m    == frac.pos
                hasE == m <= Len(s) /\ (s[m] = 101 \/ s[m] = 69)
                m1   == IF hasE /\ m + 1 <= Len(s) /\ (s[m + 1] = 43 \/ s[m + 1] = 45)
                        THEN m + 2 ELSE m + 1
            IN  IF hasF /\ m = int.pos + 1 THEN bad(m)
                ELSE exponent(neg, int, hasF, hasE, m1,
                              IF hasE THEN digits(m1) ELSE [pos |-> m, n |-> 0])
        integer(neg, j, int) ==
            LET k    == int.pos
                hasF == k <= Len(s) /\ s[k] = 46
            IN  IF k = j THEN bad(j)
                ELSE fraction(neg, int, hasF,
                              IF hasF THEN digits(k + 1) ELSE [pos |-> k, n |-> 0])
        sign(neg, j) ==
            integer(neg, j, IF j <= Len(s) /\ s[j] = 48 THEN [pos |-> j + 1, n |-> 0]
                            ELSE digits(j))
    IN  sign(s[i] = 45, IF s[i] = 45 THEN i + 1 ELSE i)

scanLiteral(s, i, word, v) ==
    IF i + Len(word) - 1 <= Len(s) /\ SubSeq(s, i, i + Len(word) - 1) = word
    THEN [err |-> "", pos |-> i + Len(word), val |-> v]
    ELSE [err |-> IF i + Len(word) - 1 > Len(s)
                     /\ SubSeq(s, i, Len(s)) = SubSeq(word, 1, Len(s) - i + 1)
                  THEN ErrUnexpectedEnd ELSE ErrInvalidChar,
          pos |-> i, val |-> v]

RECURSIVE scanValue(_, _), scanMembers(_, _, _), scanElements(_, _)

\* The members of an object after '{' or ',': val is a sequence of <<key, value>>.
scanMembers(s, i0, acc) ==
    LET fail(e, p) == [err |-> e, pos |-> p, val |-> acc]
        afterMember(e, acc2) ==
            IF e > Len(s) THEN fail(ErrUnexpectedEnd, e)
            ELSE IF s[e] = 125 THEN [err |-> "", pos |-> e + 1, val |-> acc2]
            ELSE IF s[e] = 44 THEN scanMembers(s, e + 1, acc2)
            ELSE fail(ErrInvalidChar, e)
        afterValue(key, v) ==
            IF v.err # "" THEN fail(v.err, v.pos)
            ELSE afterMember(skipSpace(s, v.pos), Append(acc, <<key.val, v.val>>))
        afterKey(key, c) ==
            IF c > Len(s) THEN fail(ErrUnexpectedEnd, c)
            ELSE IF s[c] # 58 THEN fail(ErrInvalidChar, c)
            ELSE afterValue(key, scanValue(s, c + 1))
        member(key) ==
            IF key.err # "" THEN fail(key.err, key.pos)
            ELSE afterKey(key, skipSpace(s, key.pos))
        begin(i) ==
            IF i > Len(s) THEN fail(ErrUnexpectedEnd, i)
            ELSE IF s[i] # 34 THEN fail(ErrInvalidChar, i)
            ELSE member(scanString(s, i + 1, <<>>))
    IN  begin(skipSpace(s, i0))

\* The elements of an array after '[' or ',' (their values are not kept: no
\* field of Claims is an array).
scanElements(s, i0) ==
    LET afterElement(e) ==
            IF e > Len(s) THEN [err |-> ErrUnexpectedEnd, pos |-> e]
            ELSE IF s[e] = 93 THEN [err |-> "", pos |-> e + 1]
            ELSE IF s[e] = 44 THEN scanElements(s, e + 1)
            ELSE [err |-> ErrInvalidChar, pos |-> e]
        element(v) ==
            IF v.err # "" THEN [err |-> v.err, pos |-> v.pos]
            ELSE afterElement(skipSpace(s, v.pos))
    IN  element(scanValue(s, i0))

scanValue(s, i0) ==
    LET none == [t |-> "null"]
        object(r) == [err |-> r.err, pos |-> r.pos,
                      val |-> [t |-> "object", members |-> r.val]]
        array(r)  == [err |-> r.err, pos |-> r.pos, val |-> [t |-> "array"]]
        string(r) == [err |-> r.err, pos |-> r.pos,
                      val |-> [t |-> "string", s |-> r.val]]
        closes(j, c) == j <= Len(s) /\ s[j] = c
        value(i) ==
            IF i > Len(s) THEN [err |-> ErrUnexpectedEnd, pos |-> i, val |-> none]
            ELSE LET c == s[i] IN
              CASE c = 123 ->
                     IF closes(skipSpace(s, i + 1), 125)
                     THEN [err |-> "", pos |-> skipSpace(s, i + 1) + 1,
                           val |-> [t |-> "object", members |-> <<>>]]
                     ELSE object(scanMembers(s, i + 1, <<>>))
                [] c = 91 ->
                     IF closes(skipSpace(s, i + 1), 93)
                     THEN [err |-> "", pos |-> skipSpace(s, i + 1) + 1,
                           val |-> [t |-> "array"]]
                     ELSE array(scanElements(s, i + 1))
                [] c = 34 -> string(scanString(s, i + 1, <<>>))
                [] c = 45 \/ isDigit(c) -> scanNumber(s, i)
                [] c = 116 -> scanLiteral(s, i, <<116, 114, 117, 101>>, [t |-> "bool"])
                [] c = 102 ->
                     scanLiteral(s, i, <<102, 97, 108, 115, 101>>, [t |-> "bool"])
                [] c = 110 -> scanLiteral(s, i, <<110, 117, 108, 108>>, [t |-> "null"])
                [] OTHER -> [err |-> ErrInvalidChar, pos |-> i, val |-> none]
    IN  value(skipSpace(s, i0))

\* checkValid and the decode of the top-level value: [err, val].
ParseJSON(data) ==
    LET top(r) ==
            IF r.err # "" THEN [err |-> r.err, val |-> [t |-> "null"]]
            ELSE IF skipSpace(data, r.pos) <= Len(data)
            THEN [err |-> ErrInvalidChar, val |-> [t |-> "null"]]
            ELSE [err |-> "", val |-> r.val]
    IN  top(scanValue(data, 1))

\* The ASCII part of the case folding by which field names are matched.
toLower(s) == [i \in 1..Len(s) |-> IF s[i] >= 65 /\ s[i] <= 90 THEN s[i] + 32 ELSE s[i]]
EqualFold(a, b) == toLower(a) = toLower(b)

(***************************************************************************)
(* package crypto/sha256 and crypto/hmac.  SHA-256 itself is replaced by a *)
(* stand-in digest: deterministic, Size bytes long, and free of collisions *)
(* on the messages of this model (three position-weighted sums, written   *)
(* into the leading bytes).  HMAC is built over it as the library builds   *)
(* it: the key is zero-padded to BlockSize (hashed first when longer),     *)
(* then H((key xor opad) || H((key xor ipad) || message)).                  *)
(***************************************************************************)
BlockSize == 64
Size == 32

\* One accumulator of the stand-in digest: a position-weighted sum modulo p
\* (BagCardinality adds up the values of a function with positive values).
lane(data, mult, p) ==
    LET n == Len(data)
        w == [i \in 1..n |-> (((data[i] + 1) * (((i * mult) % p) + 1)) % p) + 1]
    IN  IF n = 0 THEN 0 ELSE BagCardinality(w) % p

Sum256(data) ==
    LET a == lane(data, 7919, 46337)
        b == lane(data, 6007, 46327)
        c == lane(data, 3571, 46309)
    IN  [i \in 1..Size |->
            CASE i = 1 -> a % 256
              [] i = 2 -> a \div 256
              [] i = 3 -> b % 256
              [] i = 4 -> b \div 256
              [] i = 5 -> c % 256
              [] i = 6 -> c \div 256
              [] OTHER -> (a + i * b + i * i * c) % 256]

RECURSIVE xorBits(_, _, _)
xorBits(a, b, n) ==
    IF n = 0 THEN 0
    ELSE ((a + b) % 2) + 2 * xorBits(a \div 2, b \div 2, n - 1)

\* a xor 0x36 and a xor 0x5c for every byte a.
ipad == [a \in 0..255 |-> xorBits(a, 54, 8)]
opad == [a \in 0..255 |-> xorBits(a, 92, 8)]

\* The key as hmac.New uses it: hashed when longer than a block, then
\* padded with zero bytes to BlockSize.
hmacKey(key) ==
    LET k == IF Len(key) > BlockSize THEN Sum256(key) ELSE key
    IN  [i \in 1..BlockSize |-> IF i <= Len(k) THEN k[i] ELSE 0]

\* hmac.New(sha256.New, key), Write(data), Sum(nil)
hmacSum(key, data) ==
    LET kb   == hmacKey(key)
        in   == [i \in 1..BlockSize |-> ipad[kb[i]]]
        out  == [i \in 1..BlockSize |-> opad[kb[i]]]
    IN  Sum256(out \o Sum256(in \o data))

(***************************************************************************)
(* int64 arithmetic (time.Duration counts nanoseconds in an int64): a      *)
(* value is its 8 bytes, least significant first, in two's complement.     *)
(***************************************************************************)
pow256 == <<1, 256, 65536, 16777216>>

\* int64(n) for an n of at most 32 bits.
Int64(n) ==
    [i \in 1..8 |-> IF i <= 4 THEN (n \div pow256[i]) % 256
                    ELSE IF n < 0 THEN 255 ELSE 0]

\* Column k of the schoolbook product (BagCardinality adds up the values of
\* a function with positive values).
column(a, b, k) == BagCardinality([i \in 1..k |-> a[i] * b[k + 1 - i] + 1]) - k

\* a * b, wrapping modulo 2^64 as Go's int64 multiplication does.
Mul64(a, b) ==
    LET t1 == column(a, b, 1)
        t2 == column(a, b, 2) + (t1 \div 256)
        t3 == column(a, b, 3) + (t2 \div 256)
        t4 == column(a, b, 4) + (t3 \div 256)
        t5 == column(a, b, 5) + (t4 \div 256)
        t6 == column(a, b, 6) + (t5 \div 256)
        t7 == column(a, b, 7) + (t6 \div 256)
        t8 == column(a, b, 8) + (t7 \div 256)
    IN  <<t1 % 256, t2 % 256, t3 % 256, t4 % 256,
          t5 % 256, t6 % 256, t7 % 256, t8 % 256>>

IsNeg64(a) == a[8] >= 128

\* 2^64 - a: the bytes below the lowest non-zero byte stay zero, that byte
\* is negated and the bytes above it are complemented.
negLimbs(a) ==
    LET z == CHOOSE k \in 1..9 :
                 (k = 9 \/ a[k] # 0) /\ \A j \in 1..(k - 1) : a[j] = 0
    IN  [k \in 1..8 |-> IF k < z THEN 0
                        ELSE IF k = z THEN 256 - a[k] ELSE 255 - a[k]]

\* |a| as an unsigned 64-bit number.
Abs64(a) == IF IsNeg64(a) THEN negLimbs(a) ELSE a

\* The four 16-bit words of eight bytes.
words(a) == [k \in 1..4 |-> a[2 * k - 1] + 256 * a[2 * k]]

\* Unsigned long division of four 16-bit words by a small d: [q, r].
divWords(w, d) ==
    LET c4 == w[4]
        c3 == (c4 % d) * 65536 + w[3]
        c2 == (c3 % d) * 65536 + w[2]
        c1 == (c2 % d) * 65536 + w[1]
    IN  [q |-> <<c1 \div d, c2 \div d, c3 \div d, c4 \div d>>, r |-> c1 % d]

\* a / 10^9 and a % 10^9 with Go's truncation toward zero: [q, r], for a
\* quotient of at most 31 bits.
DivMod1e9(a) ==
    LET d1   == divWords(words(Abs64(a)), 1000)
        d2   == divWords(d1.q, 1000)
        d3   == divWords(d2.q, 1000)
        q    == d3.q[1] + 65536 * (d3.q[2] + 65536 * (d3.q[3] + 65536 * d3.q[4]))
        r    == d1.r + 1000 * d2.r + 1000000 * d3.r
    IN  IF IsNeg64(a) THEN [q |-> 0 - q, r |-> 0 - r] ELSE [q |-> q, r |-> r]

(***************************************************************************)
(* package time.  A Time is [sec, nsec]: Unix seconds and the nanoseconds  *)
(* within the second.                                                      *)
(***************************************************************************)
\* time.Hour == 60 * 60 * 1e9 nanoseconds
Hour == Mul64(Int64(3600), Int64(1000000000))

\* time.Duration(hours) * time.Hour
HoursDuration(hours) == Mul64(Int64(hours), Hour)

\* Time.Add(d)
TimeAdd(t, d) ==
    LET sum(dm, nsec) ==
            IF nsec >= 1000000000
            THEN [sec |-> t.sec + dm.q + 1, nsec |-> nsec - 1000000000]
            ELSE IF nsec < 0
            THEN [sec |-> t.sec + dm.q - 1, nsec |-> nsec + 1000000000]
            ELSE [sec |-> t.sec + dm.q, nsec |-> nsec]
        add(dm) == sum(dm, t.nsec + dm.r)
    IN  add(DivMod1e9(d))

\* Time.Unix()
Unix(t) == t.sec

(***************************************************************************)
(* auth.go: Claims and their JSON form                                     *)
(***************************************************************************)
\* The zero value of Claims.
ZeroClaims ==
    [UserID |-> <<>>, Username |-> <<>>, Role |-> <<>>,
     IssuedAt |-> 0, ExpiresAt |-> 0]

\* The json tags of Claims, in field order: "user_id", "username", "role",
\* "iat", "exp".
claimsFields ==
    << [tag |-> <<117, 115, 101, 114, 95, 105, 100>>, name |-> "user_id",
        field |-> "UserID", kind |-> "string"],
       [tag |-> <<117, 115, 101, 114, 110, 97, 109, 101>>, name |-> "username",
        field |-> "Username", kind |-> "string"],
       [tag |-> <<114, 111, 108, 101>>, name |-> "role",
        field |-> "Role", kind |-> "string"],
       [tag |-> <<105, 97, 116>>, name |-> "iat",
        field |-> "IssuedAt", kind |-> "int64"],
       [tag |-> <<101, 120, 112>>, name |-> "exp",
        field |-> "ExpiresAt", kind |-> "int64"] >>

\* json.Marshal(claims):
\* {"user_id":"..","username":"..","role":"..","iat":N,"exp":N}
MarshalClaims(c) ==
    <<123>> \o MarshalString(claimsFields[1].tag) \o <<58>> \o MarshalString(c.UserID)
    \o <<44>> \o MarshalString(claimsFields[2].tag) \o <<58>> \o MarshalString(c.Username)
    \o <<44>> \o MarshalString(claimsFields[3].tag) \o <<58>> \o MarshalString(c.Role)
    \o <<44>> \o MarshalString(claimsFields[4].tag) \o <<58>> \o Itoa(c.IssuedAt)
    \o <<44>> \o MarshalString(claimsFields[5].tag) \o <<58>> \o Itoa(c.ExpiresAt)
    \o <<125>>

\* json.Marshal(map[string]interface{}{"alg": alg, "typ": typ}): the keys of
\* a map are written in sorted order.
MarshalHeader(alg, typ) ==
    <<123>> \o MarshalString(<<97, 108, 103>>) \o <<58>> \o MarshalString(alg)
    \o <<44>> \o MarshalString(<<116, 121, 112>>) \o <<58>> \o MarshalString(typ)
    \o <<125>>

\* The field a key names: an exact match of the tag, else the first match
\* under case folding, else 0 (the member is skipped).
fieldIndex(key) ==
    IF \E i \in 1..Len(claimsFields) : claimsFields[i].tag = key
    THEN CHOOSE i \in 1..Len(claimsFields) : claimsFields[i].tag = key
    ELSE IF \E i \in 1..Len(claimsFields) : EqualFold(claimsFields[i].tag, key)
    THEN CHOOSE i \in 1..Len(claimsFields) :
             /\ EqualFold(claimsFields[i].tag, key)
             /\ \A j \in 1..(i - 1) : ~EqualFold(claimsFields[j].tag, key)
    ELSE 0

UnmarshalTypeError(v, f) ==
    "json: cannot unmarshal " \o v.t \o " into Go struct field Claims."
    \o f.name \o " of type " \o f.kind

\* The members of the object stored into the struct one by one; the first
\* type error is kept and decoding goes on.
RECURSIVE storeMembers(_, _, _, _)
storeMembers(members, i, c, err) ==
    IF i > Len(members) THEN [err |-> err, val |-> c]
    ELSE LET key == members[i][1]
             v   == members[i][2]
             fi  == fieldIndex(key)
         IN  IF fi = 0 \/ v.t = "null" THEN storeMembers(members, i + 1, c, err)
             ELSE LET f == claimsFields[fi] IN
                  IF f.kind = "string" /\ v.t = "string"
                  THEN storeMembers(members, i + 1, [c EXCEPT ![f.field] = v.s], err)
                  ELSE IF f.kind = "int64" /\ v.t = "number" /\ v.isInt
                  THEN storeMembers(members, i + 1, [c EXCEPT ![f.field] = v.n], err)
                  ELSE storeMembers(members, i + 1, c,
                                    IF err = "" THEN UnmarshalTypeError(v, f) ELSE err)

\* json.Unmarshal(data, &claims) into a zero Claims: [err, val].
UnmarshalClaims(data) ==
    LET decode(p) ==
            IF p.err # "" THEN [err |-> p.err, val |-> ZeroClaims]
            ELSE IF p.val.t = "null" THEN [err |-> "", val |-> ZeroClaims]
            ELSE IF p.val.t # "object"
            THEN [err |-> "json: cannot unmarshal " \o p.val.t
                          \o " into Go value of type main.Claims",
                  val |-> ZeroClaims]
            ELSE storeMembers(p.val.members, 1, ZeroClaims, "")
    IN  decode(ParseJSON(data))

(***************************************************************************)
(* auth.go: the token codec.  An AuthMiddleware is [secretKey, enabled].   *)
(***************************************************************************)
NewAuthMiddleware(secretKey, enabled) ==
    [secretKey |-> secretKey, enabled |-> enabled]

\* A signature that does not depend on the key: the digest of the data alone.
createSignatureUnkeyed(am, data) == EncodeToString(Sum256(data))

createSignature(am, data) == EncodeToString(hmacSum(am.secretKey, data))

\* GenerateJWT at the clock reading now ([sec, nsec]): [token, err].
GenerateJWT(am, userID, username, role, expirationHours, now) ==
    LET claims == [UserID    |-> userID,
                   Username  |-> username,
                   Role      |-> role,
                   IssuedAt  |-> Unix(now),
                   ExpiresAt |-> Unix(TimeAdd(now, HoursDuration(expirationHours)))]
        headerBytes  == MarshalHeader(<<72, 83, 50, 53, 54>>, <<74, 87, 84>>)
        payloadBytes == MarshalClaims(claims)
        combine(signingInput, signature) ==
            [token |-> signingInput \o <<46>> \o signature, err |-> ""]
        sign(signingInput) ==
            combine(signingInput, createSignature(am, signingInput))
        encode(encodedHeader, encodedPayload) ==
            sign(encodedHeader \o <<46>> \o encodedPayload)
    IN  encode(EncodeToString(headerBytes), EncodeToString(payloadBytes))

\* validateJWT without the comparison of the signature segment.
validateJWTUnverified(am, token) ==
    LET fail(msg) == [claims |-> ZeroClaims, err |-> msg]
        parse(un) ==
            IF un.err # "" THEN fail("failed to parse claims: " \o un.err)
            ELSE [claims |-> un.val, err |-> ""]
        decode(dec) ==
            IF dec.err # "" THEN fail("failed to decode payload: " \o dec.err)
            ELSE parse(UnmarshalClaims(dec.val))
        split(parts) ==
            IF Len(parts) # 3 THEN fail("invalid token format")
            ELSE decode(DecodeString(parts[2]))
    IN  split(Split(token, 46))

\* validateJWT that also refuses claims whose lifetime has run out before it
\* began (exp earlier than iat), as a verifier that enforces expiry would.
validateJWTEnforcingExpiry(am, token) ==
    LET fail(msg) == [claims |-> ZeroClaims, err |-> msg]
        parse(un) ==
            IF un.err # "" THEN fail("failed to parse claims: " \o un.err)
            ELSE IF un.val.ExpiresAt < un.val.IssuedAt THEN fail("token is expired")
            ELSE [claims |-> un.val, err |-> ""]
        decode(dec) ==
            IF dec.err # "" THEN fail("failed to decode payload: " \o dec.err)
            ELSE parse(UnmarshalClaims(dec.val))
        verify(header, payload, signature) ==
            LET expectedSignature == createSignature(am, header \o <<46>> \o payload)
            IN  IF signature # expectedSignature THEN fail("invalid signature")
                ELSE decode(DecodeString(payload))
        split(parts) ==
            IF Len(parts) # 3 THEN fail("invalid token format")
            ELSE verify(parts[1], parts[2], parts[3])
    IN  split(Split(token, 46))

\* validateJWT comparing the decoded bytes of the signature segment, not its
\* characters: the bits of the last character that carry no data are ignored.
validateJWTDecodedCompare(am, token) ==
    LET fail(msg) == [claims |-> ZeroClaims, err |-> msg]
        parse(un) ==
            IF un.err # "" THEN fail("failed to parse claims: " \o un.err)
            ELSE [claims |-> un.val, err |-> ""]
        decode(dec) ==
            IF dec.err # "" THEN fail("failed to decode payload: " \o dec.err)
            ELSE parse(UnmarshalClaims(dec.val))
        verify(header, payload, signature) ==
            LET expected == hmacSum(am.secretKey, header \o <<46>> \o payload)
            IN  IF DecodeString(signature).val # expected
                THEN fail("invalid signature")
                ELSE decode(DecodeString(payload))
        split(parts) ==
            IF Len(parts) # 3 THEN fail("invalid token format")
            ELSE verify(parts[1], parts[2], parts[3])
    IN  split(Split(token, 46))

\* validateJWT that asks for at least three segments and reads the first
\* three.
validateJWTAtLeastThree(am, token) ==
    LET fail(msg) == [claims |-> ZeroClaims, err |-> msg]
        parse(un) ==
            IF un.err # "" THEN fail("failed to parse claims: " \o un.err)
            ELSE [claims |-> un.val, err |-> ""]
        decode(dec) ==
            IF dec.err # "" THEN fail("failed to decode payload: " \o dec.err)
            ELSE parse(UnmarshalClaims(dec.val))
        verify(header, payload, signature) ==
            LET expectedSignature == createSignature(am, header \o <<46>> \o payload)
            IN  IF signature # expectedSignature THEN fail("invalid signature")
                ELSE decode(DecodeString(payload))
        split(parts) ==
            IF Len(parts) < 3 THEN fail("invalid token format")
            ELSE verify(parts[1], parts[2], parts[3])
    IN  split(Split(token, 46))

\* validateJWT that decodes and parses the payload before it compares the
\* signature.
validateJWTPayloadFirst(am, token) ==
    LET fail(msg) == [claims |-> ZeroClaims, err |-> msg]
        verify(header, payload, signature, un) ==
            LET expectedSignature == createSignature(am, header \o <<46>> \o payload)
            IN  IF signature # expectedSignature THEN fail("invalid signature")
                ELSE [claims |-> un.val, err |-> ""]
        parse(header, payload, signature, un) ==
            IF un.err # "" THEN fail("failed to parse claims: " \o un.err)
            ELSE verify(header, payload, signature, un)
        decode(header, payload, signature, dec) ==
            IF dec.err # "" THEN fail("failed to decode payload: " \o dec.err)
            ELSE parse(header, payload, signature, UnmarshalClaims(dec.val))
        split(parts) ==
            IF Len(parts) # 3 THEN fail("invalid token format")
            ELSE decode(parts[1], parts[2], parts[3], DecodeString(parts[2]))
    IN  split(Split(token, 46))

\* validateJWT: [claims, err]; claims is ZeroClaims where Go returns nil.
validateJWT(am, token) ==
    LET fail(msg) == [claims |-> ZeroClaims, err |-> msg]
        parse(un) ==
            IF un.err # "" THEN fail("failed to parse claims: " \o un.err)
            ELSE [claims |-> un.val, err |-> ""]
        decode(dec) ==
            IF dec.err # "" THEN fail("failed to decode payload: " \o dec.err)
            ELSE parse(UnmarshalClaims(dec.val))
        verify(header, payload, signature) ==
            LET expectedSignature == createSignature(am, header \o <<46>> \o payload)
            IN  IF signature # expectedSignature THEN fail("invalid signature")
                ELSE decode(DecodeString(payload))
        split(parts) ==
            IF Len(parts) # 3 THEN fail("invalid token format")
            ELSE verify(parts[1], parts[2], parts[3])
    IN  split(Split(token, 46))

(***************************************************************************)
(* auth.go: the request context and the middleware.  A context is a        *)
(* function from the keys set on it to their values; a request is          *)
(* [Method, Authorization], Authorization being what                       *)
(* r.Header.Get("Authorization") returns (empty when the header is absent).*)
(***************************************************************************)
contextKeyUserID        == "user_id"
contextKeyUsername      == "username"
contextKeyRole          == "role"
contextKeyAuthError     == "auth_error"
contextKeyHTTPMethod    == "http_method"
contextKeyAuthenticated == "authenticated"

\* context.Background()
Background == [k \in {} |-> 0]

WithValue(ctx, key, val) ==
    [k \in DOMAIN ctx \cup {key} |-> IF k = key THEN val ELSE ctx[k]]

\* "Bearer "
bearerPrefix == <<66, 101, 97, 114, 101, 114, 32>>

extractTokenFromHeader(r) ==
    LET authHeader == r.Authorization IN
    IF authHeader = <<>> THEN <<>>
    ELSE IF ~HasPrefix(authHeader, bearerPrefix) THEN <<>>
    ELSE TrimPrefix(authHeader, bearerPrefix)

\* The context function without the test of the enabled flag.
HTTPContextFuncAlwaysOn(am, ctx0, r, now) ==
    LET ctx == WithValue(ctx0, contextKeyHTTPMethod, r.Method)
        reject(msg) ==
            WithValue(WithValue(ctx, contextKeyAuthError, msg),
                      contextKeyAuthenticated, FALSE)
        validated(v) ==
            IF v.err # "" THEN reject("invalid token: " \o v.err)
            ELSE IF Unix(now) > v.claims.ExpiresAt THEN reject("token expired")
            ELSE WithValue(WithValue(WithValue(WithValue(ctx,
                     contextKeyUserID, v.claims.UserID),
                     contextKeyUsername, v.claims.Username),
                     contextKeyRole, v.claims.Role),
                     contextKeyAuthenticated, TRUE)
        extracted(token) ==
            IF token = <<>> THEN reject("missing or invalid authorization header")
            ELSE validated(validateJWT(am, token))
    IN  extracted(extractTokenFromHeader(r))

\* The context function without the test of the expiry.
HTTPContextFuncNoExpiry(am, ctx0, r, now) ==
    LET ctx == WithValue(ctx0, contextKeyHTTPMethod, r.Method)
        reject(msg) ==
            WithValue(WithValue(ctx, contextKeyAuthError, msg),
                      contextKeyAuthenticated, FALSE)
        validated(v) ==
            IF v.err # "" THEN reject("invalid token: " \o v.err)
            ELSE WithValue(WithValue(WithValue(WithValue(ctx,
                     contextKeyUserID, v.claims.UserID),
                     contextKeyUsername, v.claims.Username),
                     contextKeyRole, v.claims.Role),
                     contextKeyAuthenticated, TRUE)
        extracted(token) ==
            IF token = <<>> THEN reject("missing or invalid authorization header")
            ELSE validated(validateJWT(am, token))
    IN  IF ~am.enabled
        THEN WithValue(ctx, contextKeyAuthenticated, TRUE)
        ELSE extracted(extractTokenFromHeader(r))

\* The context function handing every extraction, the empty one included, to
\* validateJWT.
HTTPContextFuncValidatesEmpty(am, ctx0, r, now) ==
    LET ctx == WithValue(ctx0, contextKeyHTTPMethod, r.Method)
        reject(msg) ==
            WithValue(WithValue(ctx, contextKeyAuthError, msg),
                      contextKeyAuthenticated, FALSE)
        validated(v) ==
            IF v.err # "" THEN reject("invalid token: " \o v.err)
            ELSE IF Unix(now) > v.claims.ExpiresAt THEN reject("token expired")
            ELSE WithValue(WithValue(WithValue(WithValue(ctx,
                     contextKeyUserID, v.claims.UserID),
                     contextKeyUsername, v.claims.Username),
                     contextKeyRole, v.claims.Role),
                     contextKeyAuthenticated, TRUE)
        extracted(token) ==
            validated(validateJWT(am, token))
    IN  IF ~am.enabled
        THEN WithValue(ctx, contextKeyAuthenticated, TRUE)
        ELSE extracted(extractTokenFromHeader(r))

\* The context function reporting a verification failure without its cause.
HTTPContextFuncOpaqueError(am, ctx0, r, now) ==
    LET ctx == WithValue(ctx0, contextKeyHTTPMethod, r.Method)
        reject(msg) ==
            WithValue(WithValue(ctx, contextKeyAuthError, msg),
                      contextKeyAuthenticated, FALSE)
        validated(v) ==
            IF v.err # "" THEN reject("invalid token")
            ELSE IF Unix(now) > v.claims.ExpiresAt THEN reject("token expired")
            ELSE WithValue(WithValue(WithValue(WithValue(ctx,
                     contextKeyUserID, v.claims.UserID),
                     contextKeyUsername, v.claims.Username),
                     contextKeyRole, v.claims.Role),
                     contextKeyAuthenticated, TRUE)
        extracted(token) ==
            IF token = <<>> THEN reject("missing or invalid authorization header")
            ELSE validated(validateJWT(am, token))
    IN  IF ~am.enabled
        THEN WithValue(ctx, contextKeyAuthenticated, TRUE)
        ELSE extracted(extractTokenFromHeader(r))

\* The context function storing the username as the role and the role as the
\* username.
HTTPContextFuncSwappedFields(am, ctx0, r, now) ==
    LET ctx == WithValue(ctx0, contextKeyHTTPMethod, r.Method)
        reject(msg) ==
            WithValue(WithValue(ctx, contextKeyAuthError, msg),
                      contextKeyAuthenticated, FALSE)
        validated(v) ==
            IF v.err # "" THEN reject("invalid token: " \o v.err)
            ELSE IF Unix(now) > v.claims.ExpiresAt THEN reject("token expired")
            ELSE WithValue(WithValue(WithValue(WithValue(ctx,
                     contextKeyUserID, v.claims.UserID),
                     contextKeyUsername, v.claims.Role),
                     contextKeyRole, v.claims.Username),
                     contextKeyAuthenticated, TRUE)
        extracted(token) ==
            IF token = <<>> THEN reject("missing or invalid authorization header")
            ELSE validated(validateJWT(am, token))
    IN  IF ~am.enabled
        THEN WithValue(ctx, contextKeyAuthenticated, TRUE)
        ELSE extracted(extractTokenFromHeader(r))

\* The context function storing the user id before it tests the expiry.
HTTPContextFuncIdentityFirst(am, ctx0, r, now) ==
    LET ctx == WithValue(ctx0, contextKeyHTTPMethod, r.Method)
        reject(msg) ==
            WithValue(WithValue(ctx, contextKeyAuthError, msg),
                      contextKeyAuthenticated, FALSE)
        validated(v) ==
            IF v.err # "" THEN reject("invalid token: " \o v.err)
            ELSE IF Unix(now) > v.claims.ExpiresAt
            THEN WithValue(reject("token expired"), contextKeyUserID, v.claims.UserID)
            ELSE WithValue(WithValue(WithValue(WithValue(ctx,
                     contextKeyUserID, v.claims.UserID),
                     contextKeyUsername, v.claims.Username),
                     contextKeyRole, v.claims.Role),
                     contextKeyAuthenticated, TRUE)
        extracted(token) ==
            IF token = <<>> THEN reject("missing or invalid authorization header")
            ELSE validated(validateJWT(am, token))
    IN  IF ~am.enabled
        THEN WithValue(ctx, contextKeyAuthenticated, TRUE)
        ELSE extracted(extractTokenFromHeader(r))

\* The function HTTPContextFunc returns, applied at the clock reading now.
HTTPContextFunc(am, ctx0, r, now) ==
    LET ctx == WithValue(ctx0, contextKeyHTTPMethod, r.Method)
        reject(msg) ==
            WithValue(WithValue(ctx, contextKeyAuthError, msg),
                      contextKeyAuthenticated, FALSE)
        validated(v) ==
            IF v.err # "" THEN reject("invalid token: " \o v.err)
            ELSE IF Unix(now) > v.claims.ExpiresAt THEN reject("token expired")
            ELSE WithValue(WithValue(WithValue(WithValue(ctx,
                     contextKeyUserID, v.claims.UserID),
                     contextKeyUsername, v.claims.Username),
                     contextKeyRole, v.claims.Role),
                     contextKeyAuthenticated, TRUE)
        extracted(token) ==
            IF token = <<>> THEN reject("missing or invalid authorization header")
            ELSE validated(validateJWT(am, token))
    IN  IF ~am.enabled
        THEN WithValue(ctx, contextKeyAuthenticated, TRUE)
        ELSE extracted(extractTokenFromHeader(r))

\* The number of calls of validateJWT the context function makes for r.
validateJWTCalls(am, r) ==
    IF ~am.enabled THEN 0
    ELSE IF extractTokenFromHeader(r) = <<>> THEN 0
    ELSE 1

\* The accessors: the zero value when the key is not set.
getUserID(ctx) ==
    IF contextKeyUserID \in DOMAIN ctx THEN ctx[contextKeyUserID] ELSE <<>>

getUsername(ctx) ==
    IF contextKeyUsername \in DOMAIN ctx THEN ctx[contextKeyUsername] ELSE <<>>

getRole(ctx) ==
    IF contextKeyRole \in DOMAIN ctx THEN ctx[contextKeyRole] ELSE <<>>

getAuthError(ctx) ==
    IF contextKeyAuthError \in DOMAIN ctx THEN ctx[contextKeyAuthError] ELSE ""

isAuthenticated(ctx) ==
    IF contextKeyAuthenticated \in DOMAIN ctx
    THEN ctx[contextKeyAuthenticated] ELSE FALSE

isHTTPRequest(ctx) ==
    IF contextKeyHTTPMethod \in DOMAIN ctx
    THEN ctx[contextKeyHTTPMethod] # <<>> ELSE FALSE

(***************************************************************************)
(* main.go: the tool guard.  The wrapped handler is handleSendNotification;*)
(* h is the (result, err) pair it returns when it is called.               *)
(***************************************************************************)
NewToolResultError(text) == [IsError |-> TRUE, Text |-> text]

NewToolResultText(text) == [IsError |-> FALSE, Text |-> text]

\* A nil *mcp.CallToolResult.
NilResult == [IsError |-> FALSE, Text |-> "<nil>"]

\* A guard that always calls the handler.
wrapWithAuthUnguarded(cfg, ctx, h) ==
    [calls |-> 1, handed |-> <<ctx>>, result |-> h.result, err |-> h.err]

\* A guard that asks for authentication on every transport.
wrapWithAuthEveryTransport(cfg, ctx, h) ==
    IF cfg.AuthEnabled /\ ~isAuthenticated(ctx)
    THEN [calls  |-> 0,
          handed |-> <<>>,
          result |-> NewToolResultError("Authentication required: "
                                        \o getAuthError(ctx)),
          err    |-> ""]
    ELSE [calls |-> 1, handed |-> <<ctx>>, result |-> h.result, err |-> h.err]

\* A guard that answers for the handler when the handler reports a failure.
wrapWithAuthMasksFailure(cfg, ctx, h) ==
    IF isHTTPRequest(ctx) /\ cfg.AuthEnabled /\ ~isAuthenticated(ctx)
    THEN [calls  |-> 0,
          handed |-> <<>>,
          result |-> NewToolResultError("Authentication required: "
                                        \o getAuthError(ctx)),
          err    |-> ""]
    ELSE IF h.err # "" \/ h.result.IsError
    THEN [calls |-> 1, handed |-> <<ctx>>,
          result |-> NewToolResultError("Tool failed"), err |-> ""]
    ELSE [calls |-> 1, handed |-> <<ctx>>, result |-> h.result, err |-> h.err]

\* A guard that refuses without saying why.
wrapWithAuthGeneric(cfg, ctx, h) ==
    IF isHTTPRequest(ctx) /\ cfg.AuthEnabled /\ ~isAuthenticated(ctx)
    THEN [calls  |-> 0,
          handed |-> <<>>,
          result |-> NewToolResultError("Authentication required"),
          err    |-> ""]
    ELSE [calls |-> 1, handed |-> <<ctx>>, result |-> h.result, err |-> h.err]

\* What the function wrapWithAuth returns does for one call: the number of
\* calls of the handler, the contexts handed to it (the request is handed on
\* as it came), and the (result, err) pair returned.
wrapWithAuth(cfg, ctx, h) ==
    IF isHTTPRequest(ctx) /\ cfg.AuthEnabled /\ ~isAuthenticated(ctx)
    THEN [calls  |-> 0,
          handed |-> <<>>,
          result |-> NewToolResultError("Authentication required: "
                                        \o getAuthError(ctx)),
          err    |-> ""]
    ELSE [calls |-> 1, handed |-> <<ctx>>, result |-> h.result, err |-> h.err]

\* The (result, err) pairs handleSendNotification returns: the text result
\* of a notification that was sent, or an error result (a parameter refused,
\* the send failed); its Go error is always nil.
HandlerReturns ==
    { [result |-> NewToolResultText("Notification sent successfully"), err |-> ""],
      [result |-> NewToolResultError("Message parameter is required"), err |-> ""],
      [result |-> NewToolResultError("Failed to send notification: invalid token"), err |-> ""] }

(***************************************************************************)
(* config.go, http_server.go, main.go: configuration and wiring            *)
(***************************************************************************)
\* strconv.Atoi on a string of at most nine digits after the sign: [val, err].
Atoi(s) ==
    LET pow10 == <<1, 10, 100, 1000, 10000, 100000, 1000000, 10000000, 100000000>>
        value(d) ==
            IF d = <<>> \/ Len(d) > 9 \/ \E i \in 1..Len(d) : ~isDigit(d[i])
            THEN [val |-> 0, err |-> "invalid syntax", mag |-> 0]
            ELSE [val |-> 0, err |-> "",
                  mag |-> LET RECURSIVE sum(_)
                              sum(i) == IF i > Len(d) THEN 0
                                        ELSE (d[i] - 48) * pow10[Len(d) + 1 - i] + sum(i + 1)
                          IN  sum(1)]
        signed(neg, m) ==
            IF m.err # "" THEN [val |-> 0, err |-> m.err]
            ELSE [val |-> IF neg THEN 0 - m.mag ELSE m.mag, err |-> ""]
    IN  IF s # <<>> /\ s[1] \in {43, 45}
        THEN signed(s[1] = 45, value(Tail(s)))
        ELSE signed(FALSE, value(s))

\* strconv.ParseBool: [val, err].
ParseBool(str) ==
    IF str \in {"1", "t", "T", "TRUE", "true", "True"} THEN [val |-> TRUE, err |-> ""]
    ELSE IF str \in {"0", "f", "F", "FALSE", "false", "False"}
    THEN [val |-> FALSE, err |-> ""]
    ELSE [val |-> FALSE, err |-> "invalid syntax"]

parseEnvBool(value, defaultValue) ==
    IF value = "" THEN defaultValue
    ELSE IF ParseBool(value).err # "" THEN defaultValue
    ELSE ParseBool(value).val

\* pushover.PriorityLow, pushover.PriorityEmergency, and the default of
\* PUSHOVER_EXPIRE.
PriorityLow == -1
PriorityEmergency == 2
defaultExpireTime == 180

\* A check of Validate that is skipped: the secret of an enabled
\* authentication may be empty.
ValidateWithoutSecret(cfg) ==
    IF cfg.PushoverAppKey = "" THEN "APP_KEY environment variable is required"
    ELSE IF cfg.PushoverRecipientKey = ""
    THEN "RECIPIENT_KEY environment variable is required"
    ELSE IF cfg.PushoverDefaultPriority < -2 \/ cfg.PushoverDefaultPriority > 2
    THEN "PUSHOVER_PRIORITY must be between -2 and 2"
    ELSE IF cfg.PushoverDefaultPriority = PriorityEmergency
              /\ cfg.PushoverDefaultExpire <= 0
    THEN "PUSHOVER_EXPIRE must be > 0 for emergency priority messages"
    ELSE ""

\* MCPConfig.Validate: the error, "" for none.
Validate(cfg) ==
    IF cfg.PushoverAppKey = "" THEN "APP_KEY environment variable is required"
    ELSE IF cfg.PushoverRecipientKey = ""
    THEN "RECIPIENT_KEY environment variable is required"
    ELSE IF cfg.PushoverDefaultPriority < -2 \/ cfg.PushoverDefaultPriority > 2
    THEN "PUSHOVER_PRIORITY must be between -2 and 2"
    ELSE IF cfg.PushoverDefaultPriority = PriorityEmergency
              /\ cfg.PushoverDefaultExpire <= 0
    THEN "PUSHOVER_EXPIRE must be > 0 for emergency priority messages"
    ELSE IF cfg.AuthEnabled /\ cfg.AuthSecretKey = <<>>
    THEN "PUSHOVER_AUTH_SECRET_KEY is required when authentication is enabled"
    ELSE ""

\* NewMCPConfig in the environment env: [config, err].  Of the settings of
\* the HTTP transport none bears on authentication or on the message; they
\* are left out.
NewMCPConfig(authEnabledFlag, env) ==
    LET priority(p) == IF p.err = "" THEN p.val ELSE PriorityLow
        expire(e) == IF e.err = "" /\ e.val # 0 THEN e.val ELSE defaultExpireTime
        validated(cfg, err) ==
            IF err # ""
            THEN [config |-> cfg, err |-> "configuration validation failed: " \o err]
            ELSE [config |-> cfg, err |-> ""]
        check(cfg) == validated(cfg, Validate(cfg))
    IN  check([AuthEnabled |-> authEnabledFlag
                                  \/ parseEnvBool(env.PUSHOVER_AUTH_ENABLED, FALSE),
               AuthSecretKey |-> env.PUSHOVER_AUTH_SECRET_KEY,
               HTTPCORSEnabled |-> parseEnvBool(env.PUSHOVER_HTTP_CORS_ENABLED, TRUE),
               PushoverAppKey |-> env.APP_KEY,
               PushoverRecipientKey |-> env.RECIPIENT_KEY,
               PushoverDeviceName |-> env.DEVICE_NAME,
               PushoverDefaultTitle |-> env.DEFAULT_TITLE,
               PushoverDefaultPriority |-> priority(Atoi(env.PUSHOVER_PRIORITY)),
               PushoverDefaultSound |-> IF env.PUSHOVER_SOUND = "" THEN "vibrate"
                                        ELSE env.PUSHOVER_SOUND,
               PushoverDefaultExpire |-> expire(Atoi(env.PUSHOVER_EXPIRE))])

\* No context function installed on the HTTP server.
NoContextFunc == [set |-> FALSE, am |-> NewAuthMiddleware(<<>>, FALSE)]

\* A Start that installs the context function whatever the configuration.
StartAlways(cfg) ==
    [set |-> TRUE, am |-> NewAuthMiddleware(cfg.AuthSecretKey, cfg.AuthEnabled)]

\* HTTPServerManager.Start: the context function is installed only when
\* authentication is enabled.
Start(cfg) ==
    IF cfg.AuthEnabled
    THEN [set |-> TRUE, am |-> NewAuthMiddleware(cfg.AuthSecretKey, cfg.AuthEnabled)]
    ELSE NoContextFunc

\* runMCPServerWithTransport: only the HTTP transport goes through Start.
runMCPServerWithTransport(tr, cfg) ==
    IF tr = "http" THEN Start(cfg) ELSE NoContextFunc

(***************************************************************************)
(* main.go: the send_notification handler.  An argument of the call is     *)
(* [kind, val], kind being "absent", "string" or "number"; the message,    *)
(* the priority and the expire value are byte strings, the other texts     *)
(* are TLA+ strings.                                                       *)
(***************************************************************************)
\* The printable ASCII characters, from the space on (the backslash and
\* the grave accent, which no name of the model holds, are written "?").
asciiChars ==
    <<" ", "!", "\"", "#", "$", "%", "&", "'", "(", ")", "*", "+", ",",
      "-", ".", "/", "0", "1", "2", "3", "4", "5", "6", "7", "8", "9", ":",
      ";", "<", "=", ">", "?", "@", "A", "B", "C", "D", "E", "F", "G", "H",
      "I", "J", "K", "L", "M", "N", "O", "P", "Q", "R", "S", "T", "U", "V",
      "W", "X", "Y", "Z", "[", "?", "]", "^", "_", "?", "a", "b", "c",
      "d", "e", "f", "g", "h", "i", "j", "k", "l", "m", "n", "o", "p", "q",
      "r", "s", "t", "u", "v", "w", "x", "y", "z", "{", "|", "}", "~">>

\* The text of a string of printable ASCII bytes, as %s prints it.
RECURSIVE String(_)
String(b) ==
    IF b = <<>> THEN ""
    ELSE (IF b[1] >= 32 /\ b[1] <= 126 THEN asciiChars[b[1] - 31] ELSE "?")
             \o String(Tail(b))

\* request.RequireString: [val, err].
RequireString(arg) ==
    IF arg.kind = "absent" THEN [val |-> <<>>, err |-> "required argument not found"]
    ELSE IF arg.kind # "string" THEN [val |-> <<>>, err |-> "argument is not a string"]
    ELSE [val |-> arg.val, err |-> ""]

\* request.GetString
GetString(arg, defaultValue) ==
    IF arg.kind = "string" THEN arg.val ELSE defaultValue

ToLegacyConfig(c) ==
    [AppKey |-> c.PushoverAppKey, RecipientKey |-> c.PushoverRecipientKey,
     DeviceName |-> c.PushoverDeviceName, DefaultTitle |-> c.PushoverDefaultTitle,
     Priority |-> c.PushoverDefaultPriority, Sound |-> c.PushoverDefaultSound,
     ExpireTime |-> c.PushoverDefaultExpire]

\* NewPushoverClient: the error, "" when the client and the recipient are
\* made.
NewPushoverClient(legacy) ==
    IF legacy.AppKey = "" THEN "APP_KEY environment variable is required"
    ELSE IF legacy.RecipientKey = ""
    THEN "RECIPIENT_KEY environment variable is required"
    ELSE ""

\* CreateMessage: a value of the command line (or of the tool call) replaces
\* that of the configuration when it is not the zero value.  Expire is in
\* seconds.
CreateMessage(text, title, legacy, cliArgs, clock) ==
    [Message |-> text,
     Title |-> IF title = "" /\ legacy.DefaultTitle # "" THEN legacy.DefaultTitle
               ELSE title,
     Priority |-> IF cliArgs.Priority # 0 THEN cliArgs.Priority ELSE legacy.Priority,
     Sound |-> IF cliArgs.Sound # "" THEN cliArgs.Sound ELSE legacy.Sound,
     Expire |-> IF cliArgs.ExpireTime # 0 THEN cliArgs.ExpireTime
                ELSE legacy.ExpireTime,
     DeviceName |-> IF cliArgs.DeviceName # "" THEN cliArgs.DeviceName
                    ELSE legacy.DeviceName,
     Timestamp |-> Unix(clock)]

\* No message was handed to SendMessage.
NoMessage ==
    [Message |-> <<>>, Title |-> "", Priority |-> 0, Sound |-> "", Expire |-> 0,
     DeviceName |-> "", Timestamp |-> 0]

\* A handler that sends before it looks at the priority and the expire
\* value.
handleSendNotificationSendFirst(ctx, args, cfg, outcome, clock) ==
    LET done(result, clients, sends, message) ==
            [result |-> result, err |-> "", clients |-> clients, sends |-> sends,
             message |-> message]
        refuse(text) == done(NewToolResultError(text), 0, 0, NoMessage)
        send(pushMessage) ==
            IF outcome.err # ""
            THEN done(NewToolResultError("Failed to send notification: " \o outcome.err),
                      1, 1, pushMessage)
            ELSE done(NewToolResultText("Notification sent successfully"),
                      1, 1, pushMessage)
        checked(message) ==
            IF message.err # "" THEN refuse("Message parameter is required")
            ELSE IF Len(message.val) > 1024
            THEN refuse("Message too long (max 1024 characters)")
            ELSE send(CreateMessage(message.val, GetString(args.title, ""),
                                    ToLegacyConfig(cfg),
                                    [Message |-> message.val, Title |-> "",
                                     Priority |-> 0, Sound |-> "", ExpireTime |-> 0,
                                     DeviceName |-> ""], clock))
    IN  checked(RequireString(args.message))

\* handleSendNotification: the (result, err) pair returned, the number of
\* clients made and of calls of SendMessage, and the message handed to
\* SendMessage.  outcome is what SendMessage returns when it is called.
handleSendNotification(ctx, args, cfg, outcome, clock) ==
    LET done(result, clients, sends, message) ==
            [result |-> result, err |-> "", clients |-> clients, sends |-> sends,
             message |-> message]
        refuse(text) == done(NewToolResultError(text), 0, 0, NoMessage)
        sentBy ==
            IF isHTTPRequest(ctx) /\ isAuthenticated(ctx) /\ getUsername(ctx) # <<>>
            THEN " (sent by " \o String(getUsername(ctx)) \o ")"
            ELSE ""
        send(pushMessage) ==
            IF outcome.err # ""
            THEN done(NewToolResultError("Failed to send notification: " \o outcome.err),
                      1, 1, pushMessage)
            ELSE done(NewToolResultText(
                          "Notification sent successfully"
                              \o (IF outcome.receipt # ""
                                  THEN ". Receipt: " \o outcome.receipt ELSE "")
                              \o sentBy),
                      1, 1, pushMessage)
        create(message, priority, expireTime, clientErr) ==
            IF clientErr # ""
            THEN done(NewToolResultError("Failed to create Pushover client: "
                                             \o clientErr), 0, 0, NoMessage)
            ELSE send(CreateMessage(message, GetString(args.title, ""),
                                    ToLegacyConfig(cfg),
                                    [Message |-> message,
                                     Title |-> GetString(args.title, ""),
                                     Priority |-> priority,
                                     Sound |-> GetString(args.sound, ""),
                                     ExpireTime |-> expireTime,
                                     DeviceName |-> GetString(args.device, "")],
                                    clock))
        expire(message, priority, expireStr, e) ==
            IF expireStr = <<>>
            THEN create(message, priority, cfg.PushoverDefaultExpire,
                        NewPushoverClient(ToLegacyConfig(cfg)))
            ELSE IF e.err # "" THEN refuse("Invalid expire value")
            ELSE create(message, priority, e.val,
                        NewPushoverClient(ToLegacyConfig(cfg)))
        priority(message, priorityStr, p) ==
            IF priorityStr = <<>>
            THEN expire(message, cfg.PushoverDefaultPriority,
                        GetString(args.expire, <<>>),
                        Atoi(GetString(args.expire, <<>>)))
            ELSE IF p.err # "" THEN refuse("Invalid priority value")
            ELSE IF p.val < -2 \/ p.val > 2
            THEN refuse("Priority must be between -2 and 2")
            ELSE expire(message, p.val, GetString(args.expire, <<>>),
                        Atoi(GetString(args.expire, <<>>)))
        checked(message) ==
            IF message.err # "" THEN refuse("Message parameter is required")
            ELSE IF Len(message.val) > 1024
            THEN refuse("Message too long (max 1024 characters)")
            ELSE priority(message.val, GetString(args.priority, <<>>),
                          Atoi(GetString(args.priority, <<>>)))
    IN  checked(RequireString(args.message))

\* LoadConfig: the configuration of the command line, from the environment.
LoadConfig(env) ==
    LET load(p, e) ==
            [AppKey |-> env.APP_KEY, RecipientKey |-> env.RECIPIENT_KEY,
             DeviceName |-> env.DEVICE_NAME, DefaultTitle |-> env.DEFAULT_TITLE,
             Priority |-> IF p.err = "" /\ p.val # 0 THEN p.val ELSE PriorityLow,
             Sound |-> IF env.PUSHOVER_SOUND = "" THEN "vibrate"
                       ELSE env.PUSHOVER_SOUND,
             ExpireTime |-> IF e.err = "" /\ e.val # 0 THEN e.val ELSE 180]
    IN  load(Atoi(env.PUSHOVER_PRIORITY), Atoi(env.PUSHOVER_EXPIRE))

\* ParseArgs, for a command line of flags: [m, t, p, e, s, d], p and e being
\* [set, val] with val the integer the flag package parsed.  A flag that is
\* not given leaves the zero value.
ParseArgs(flags) ==
    IF flags.m = <<>>
    THEN [cliArgs |-> [Message |-> <<>>, Title |-> "", Priority |-> 0, Sound |-> "",
                       ExpireTime |-> 0, DeviceName |-> ""],
          err |-> "message is required"]
    ELSE [cliArgs |-> [Message |-> flags.m, Title |-> flags.t,
                       Priority |-> IF flags.p.set THEN flags.p.val ELSE 0,
                       Sound |-> flags.s,
                       ExpireTime |-> IF flags.e.set THEN flags.e.val ELSE 0,
                       DeviceName |-> flags.d],
          err |-> ""]

\* Run with no client given: the error returned, the clients made, the calls
\* of SendMessage and the message handed to it.
Run(flags, env, outcome, clock) ==
    LET done(err, clients, sends, message) ==
            [result |-> NewToolResultText(""), err |-> err, clients |-> clients,
             sends |-> sends, message |-> message]
        run(config, parsed) ==
            IF parsed.err # ""
            THEN done("argument parsing failed: " \o parsed.err, 0, 0, NoMessage)
            ELSE IF NewPushoverClient(config) # ""
            THEN done("failed to create Pushover client: " \o NewPushoverClient(config),
                      0, 0, NoMessage)
            ELSE done(IF outcome.err # ""
                      THEN "failed to send message: " \o outcome.err ELSE "",
                      1, 1,
                      CreateMessage(parsed.cliArgs.Message, parsed.cliArgs.Title,
                                    config, parsed.cliArgs, clock))
    IN  run(LoadConfig(env), ParseArgs(flags))

(***************************************************************************)
(* http_server.go: the /generate-token endpoint.  A request body is the    *)
(* first JSON value in it: nothing at all ("empty"), text that is not JSON *)
(* ("garbage"), null, an array, or an object whose members are [name,      *)
(* kind, str, num] with kind "string", "integer", "fraction", "true" or    *)
(* "null"; what follows the first value is not read.                       *)
(***************************************************************************)
\* "POST"
MethodPost == <<80, 79, 83, 84>>
\* "OPTIONS"
MethodOptions == <<79, 80, 84, 73, 79, 78, 83>>

\* The field of the request struct a member name selects, "" if none: the
\* json tags, matched without regard to case.
fieldOf(name) ==
    IF EqualFold(name, <<117, 115, 101, 114, 95, 105, 100>>) THEN "UserID"
    ELSE IF EqualFold(name, <<117, 115, 101, 114, 110, 97, 109, 101>>) THEN "Username"
    ELSE IF EqualFold(name, <<114, 111, 108, 101>>) THEN "Role"
    ELSE IF EqualFold(name, <<101, 120, 112, 105, 114, 101, 115, 95, 105, 110>>) THEN "ExpiresIn"
    ELSE ""

\* json.NewDecoder(r.Body).Decode(&request): [request, err].  A member of
\* the wrong kind leaves its field alone and makes the error; null leaves
\* the field alone; of two members for one field the later one counts.
Decode(body) ==
    LET accepts(f, kind) ==
            IF f = "ExpiresIn" THEN kind = "integer" ELSE kind = "string"
        set(f) ==
            { i \in DOMAIN body.members :
                  /\ fieldOf(body.members[i].name) = f
                  /\ accepts(f, body.members[i].kind) }
        last(f) == CHOOSE i \in set(f) : \A j \in set(f) : j <= i
        text(f) == IF set(f) = {} THEN <<>> ELSE body.members[last(f)].str
        mistyped ==
            \E i \in DOMAIN body.members :
                /\ fieldOf(body.members[i].name) # ""
                /\ body.members[i].kind # "null"
                /\ ~accepts(fieldOf(body.members[i].name), body.members[i].kind)
        zero == [UserID |-> <<>>, Username |-> <<>>, Role |-> <<>>, ExpiresIn |-> 0]
    IN  CASE body.kind = "empty" -> [request |-> zero, err |-> "EOF"]
          [] body.kind = "garbage" ->
                [request |-> zero, err |-> "invalid character"]
          [] body.kind = "null" -> [request |-> zero, err |-> ""]
          [] body.kind = "array" ->
                [request |-> zero, err |-> "json: cannot unmarshal array"]
          [] OTHER ->
                [request |-> [UserID |-> text("UserID"), Username |-> text("Username"),
                              Role |-> text("Role"),
                              ExpiresIn |-> IF set("ExpiresIn") = {} THEN 0
                                            ELSE body.members[last("ExpiresIn")].num],
                 err |-> IF mistyped THEN "json: cannot unmarshal" ELSE ""]

\* What is written to the client: by whom, the status, the text of an error
\* or the members of the JSON response; expires_at in seconds, as far as
\* RFC 3339 shows a time.
response(by, status, text, token, request, expiresAt) ==
    [by |-> by, status |-> status, text |-> text, token |-> token,
     user_id |-> request.UserID, username |-> request.Username,
     role |-> request.Role, expires_in |-> request.ExpiresIn,
     expires_at |-> expiresAt]

NoRequest == [UserID |-> <<>>, Username |-> <<>>, Role |-> <<>>, ExpiresIn |-> 0]

\* An endpoint that issues what was asked for, without the defaults.
handleGenerateTokenAsAsked(cfg, r, clock, later) ==
    LET issue(request) ==
            response("generate-token", 200, "",
                     GenerateJWT(NewAuthMiddleware(cfg.AuthSecretKey, TRUE),
                                 request.UserID, request.Username, request.Role,
                                 request.ExpiresIn, clock).token,
                     request,
                     Unix(TimeAdd(later, HoursDuration(request.ExpiresIn))))
        decoded(d) ==
            IF d.err # ""
            THEN response("generate-token", 400, "Invalid JSON\n", <<>>, NoRequest, 0)
            ELSE issue(d.request)
    IN  IF r.Method # MethodPost
        THEN response("generate-token", 405, "Method not allowed\n", <<>>,
                      NoRequest, 0)
        ELSE decoded(Decode(r.Body))

\* handleGenerateToken; clock is the time GenerateJWT reads, later the time
\* read for expires_at.
handleGenerateToken(cfg, r, clock, later) ==
    LET issued(request, g) ==
            IF g.err # ""
            THEN response("generate-token", 500, "Failed to generate token\n", <<>>,
                          NoRequest, 0)
            ELSE response("generate-token", 200, "", g.token, request,
                          Unix(TimeAdd(later, HoursDuration(request.ExpiresIn))))
        issue(request) ==
            issued(request,
                   GenerateJWT(NewAuthMiddleware(cfg.AuthSecretKey, TRUE),
                               request.UserID, request.Username, request.Role,
                               request.ExpiresIn, clock))
        defaults(request) ==
            issue([UserID |-> IF request.UserID = <<>> THEN <<100, 101, 102, 97, 117, 108, 116, 95, 117, 115, 101, 114>>
                              ELSE request.UserID,
                   Username |-> IF request.Username = <<>> THEN <<112, 117, 115, 104, 111, 118, 101, 114, 95, 117, 115, 101, 114>>
                                ELSE request.Username,
                   Role |-> IF request.Role = <<>> THEN <<117, 115, 101, 114>> ELSE request.Role,
                   ExpiresIn |-> IF request.ExpiresIn <= 0 THEN 24
                                 ELSE request.ExpiresIn])
        decoded(d) ==
            IF d.err # ""
            THEN response("generate-token", 400, "Invalid JSON\n", <<>>, NoRequest, 0)
            ELSE defaults(d.request)
    IN  IF r.Method # MethodPost
        THEN response("generate-token", 405, "Method not allowed\n", <<>>,
                      NoRequest, 0)
        ELSE decoded(Decode(r.Body))

\* A server that asks for a bearer token before it issues one.
ServeGenerateTokenGuarded(cfg, r, clock, later) ==
    IF cfg.HTTPCORSEnabled /\ r.Method = MethodOptions
    THEN response("cors", 200, "", <<>>, NoRequest, 0)
    ELSE IF ~cfg.AuthEnabled
    THEN response("mcp", 0, "", <<>>, NoRequest, 0)
    ELSE IF ~HasPrefix(r.Authorization, bearerPrefix)
    THEN response("generate-token", 401, "Unauthorized\n", <<>>, NoRequest, 0)
    ELSE handleGenerateToken(cfg, r, clock, later)

\* The server's answer to a request for the path /generate-token: the CORS
\* wrapper answers OPTIONS itself; the path is the endpoint's only when
\* authentication is enabled, and otherwise falls to the MCP server mounted
\* at "/", whose answer is not the program's to choose (status 0 here).
ServeGenerateToken(cfg, r, clock, later) ==
    IF cfg.HTTPCORSEnabled /\ r.Method = MethodOptions
    THEN response("cors", 200, "", <<>>, NoRequest, 0)
    ELSE IF cfg.AuthEnabled
    THEN handleGenerateToken(cfg, r, clock, later)
    ELSE response("mcp", 0, "", <<>>, NoRequest, 0)

(***************************************************************************)
(* Bounds and inputs                                                       *)
(***************************************************************************)
\* The wall clock at the start, in Unix seconds, and how far it advances.
StartTime == 1757658600
MaxElapsed == 3601
\* Tokens in circulation at a time.
MaxTokens == 1
\* Requests the context function works on at a time.
MaxFlights == 2

\* The nanoseconds of a clock reading.
Nanos == {0, 999999999}

\* "k": the secret of the server; "s": another secret; "k" followed by a
\* zero byte.
SecretK == <<107>>
SecretS == <<115>>
SecretK0 == <<107, 0>>
Secrets == {SecretK, SecretS, SecretK0}

\* Subject ids: "u", and one byte that is not valid UTF-8.
UserIDs == {<<117>>, <<255>>}
\* "n" and "r"
Username == <<110>>
Role == <<114>>

\* Expiration hours: negative, zero, one hour, and one for which
\* time.Duration(hours) * time.Hour exceeds an int64.
HoursSet == {-1, 0, 1, 5124095}

\* The environment of a working installation, without authentication.
BaseEnv ==
    [APP_KEY |-> "app", RECIPIENT_KEY |-> "recipient", DEVICE_NAME |-> "",
     DEFAULT_TITLE |-> "", PUSHOVER_PRIORITY |-> <<>>, PUSHOVER_SOUND |-> "",
     PUSHOVER_EXPIRE |-> <<>>, PUSHOVER_AUTH_ENABLED |-> "",
     PUSHOVER_AUTH_SECRET_KEY |-> <<>>, PUSHOVER_HTTP_CORS_ENABLED |-> ""]

\* Environments that differ in the authentication settings.
Envs ==
    { [BaseEnv EXCEPT !.PUSHOVER_AUTH_ENABLED = a, !.PUSHOVER_AUTH_SECRET_KEY = k] :
          a \in {"", "true"}, k \in {<<>>, SecretK} }

\* Configurations NewMCPConfig accepts.
Configs ==
    { NewMCPConfig(FALSE, env).config :
          env \in {e \in Envs : NewMCPConfig(FALSE, e).err = ""} }

\* The claims a token carries in its payload segment.
payloadClaims(token) == UnmarshalClaims(DecodeString(Split(token, 46)[2]).val).val

\* A token in circulation, with what is known of how it was made.
tokenEntry(token, kind, key, userID, hours, at) ==
    [token |-> token, kind |-> kind, key |-> key, userID |-> userID,
     hours |-> hours, iat |-> at.sec, exp |-> payloadClaims(token).ExpiresAt]

NoEntry ==
    [token |-> <<>>, kind |-> "none", key |-> <<>>, userID |-> <<>>,
     hours |-> 0, iat |-> 0, exp |-> 0]

\* A token signed like GenerateJWT signs, with a header that declares alg.
forgeToken(key, alg, claims) ==
    LET sign(signingInput) ==
            signingInput \o <<46>>
                \o createSignature(NewAuthMiddleware(key, TRUE), signingInput)
    IN  sign(EncodeToString(MarshalHeader(alg, <<74, 87, 84>>)) \o <<46>>
                 \o EncodeToString(MarshalClaims(claims)))

\* The token with the character at position pos of its signature segment
\* replaced by ch.
tamper(token, pos, ch) ==
    LET at == Len(token) - Len(Split(token, 46)[3]) + pos IN
    [i \in 1..Len(token) |-> IF i = at THEN ch ELSE token[i]]

\* The Authorization headers a client can send: none, another scheme
\* ("Basic abcdef"), a token of two segments ("Bearer a.b"), and for a token
\* in circulation: the token as a bearer token, the same under the scheme
\* written "bearer", and the token with the last character of its signature
\* replaced by 'A' or, if that is the character, by 'B'.
Headers(entries) ==
    { [form |-> "absent", entry |-> NoEntry, value |-> <<>>],
      [form |-> "basic", entry |-> NoEntry,
       value |-> <<66, 97, 115, 105, 99, 32, 97, 98, 99, 100, 101, 102>>],
      [form |-> "short", entry |-> NoEntry, value |-> bearerPrefix \o <<97, 46, 98>>] }
    \cup { [form |-> "bearer", entry |-> e, value |-> bearerPrefix \o e.token] :
               e \in entries }
    \cup { [form |-> "lower", entry |-> e,
            value |-> <<98, 101, 97, 114, 101, 114, 32>> \o e.token] : e \in entries }
    \cup { [form |-> "tampered", entry |-> e,
            value |-> bearerPrefix \o
                tamper(e.token, Len(Split(e.token, 46)[3]),
                       IF e.token[Len(e.token)] = 65 THEN 66 ELSE 65)] :
               e \in entries }

\* Declared algorithms other than "HS256": "none" and "HS512".
OtherAlgs == {<<110, 111, 110, 101>>, <<72, 83, 53, 49, 50>>}

\* The contexts a guard can be called with: each key set or not.
Contexts ==
    LET with(ctx, set, key, val) == IF set THEN WithValue(ctx, key, val) ELSE ctx
    IN  { with(with(with(Background,
                         m.set, contextKeyHTTPMethod, m.val),
                    a.set, contextKeyAuthenticated, a.val),
               e.set, contextKeyAuthError, e.val) :
            m \in {[set |-> FALSE, val |-> <<>>], [set |-> TRUE, val |-> <<>>],
                   [set |-> TRUE, val |-> MethodPost]},
            a \in {[set |-> FALSE, val |-> FALSE], [set |-> TRUE, val |-> FALSE],
                   [set |-> TRUE, val |-> TRUE]},
            e \in {[set |-> FALSE, val |-> ""], [set |-> TRUE, val |-> "token expired"],
                   [set |-> TRUE, val |-> "missing or invalid authorization header"]} }

(***************************************************************************)
(* State                                                                   *)
(***************************************************************************)
VARIABLES
    config,       \* the MCPConfig the server runs with
    transport,    \* "stdio" or "http"
    contextFunc,  \* the context function installed on the HTTP server
    now,          \* the wall clock, in Unix seconds
    pool,         \* the tokens in circulation
    req,          \* the request being served
    trial,        \* the last direct use of the codec
    boot,         \* the last run of the mcp subcommand
    flights,      \* the requests the context function is working on
    reply,        \* the last reply of the /generate-token endpoint
    sent          \* the last run of handleSendNotification

vars == <<config, transport, contextFunc, now, pool, req, trial,
          boot, flights, reply, sent>>

IdleReq ==
    [pc |-> "idle", r |-> [Method |-> <<>>, Authorization |-> <<>>],
     form |-> "none", entry |-> NoEntry, ctx |-> Background, at |-> 0,
     calls |-> 0, result |-> NilResult, err |-> ""]

NoTrial ==
    [kind |-> "none", entry |-> NoEntry, secret |-> <<>>, at |-> 0, pos |-> 0,
     presented |-> <<>>, res |-> [claims |-> ZeroClaims, err |-> ""],
     ctx |-> Background]

\* The mcp subcommand has not been run.
NoBoot ==
    [ran |-> FALSE, authEnabledFlag |-> FALSE, env |-> BaseEnv,
     transportMode |-> "stdio", err |-> ""]

\* A request slot of the HTTP server: pc is the place of the goroutine in the
\* context function and the guard, the other fields are its locals.
IdleFlight ==
    [pc |-> "idle", r |-> [Method |-> <<>>, Authorization |-> <<>>],
     ctx |-> Background, token |-> <<>>, claims |-> ZeroClaims, readAt |-> 0,
     calls |-> 0]

\* No request is with the context function.
NoFlights == [i \in 1..MaxFlights |-> IdleFlight]

\* The last request for /generate-token and what was written in answer.
NoReply ==
    [r |-> [Method |-> <<>>, Body |-> [kind |-> "empty", members |-> <<>>],
            Authorization |-> <<>>],
     w |-> response("none", 0, "", <<>>, NoRequest, 0)]

\* An argument that was not given.
NoArg == [kind |-> "absent", val |-> <<>>]
NoText == [kind |-> "absent", val |-> ""]
NoArgs ==
    [message |-> NoArg, title |-> NoText, priority |-> NoArg, device |-> NoText,
     sound |-> NoText, expire |-> NoArg]
NoFlags ==
    [m |-> <<>>, t |-> "", p |-> [set |-> FALSE, val |-> 0],
     e |-> [set |-> FALSE, val |-> 0], s |-> "", d |-> ""]

\* The last notification asked for: through which entry ("tool" or "cli"),
\* with which arguments or flags, under which configuration, and what came
\* of it.
NoSent ==
    [ran |-> FALSE, entry |-> "none", args |-> NoArgs, flags |-> NoFlags,
     legacy |-> LoadConfig(BaseEnv),
     out |-> [result |-> NewToolResultText(""), err |-> "", clients |-> 0,
              sends |-> 0, message |-> NoMessage]]

\* The clock moves forward to one of these offsets from StartTime.
Offsets == {0, 3600, MaxElapsed}

\* time.Now()
clockReading(ns) == [sec |-> now, nsec |-> ns]

(***************************************************************************)
(* Actions                                                                 *)
(***************************************************************************)
Tick ==
    /\ \E o \in Offsets : StartTime + o > now /\ now' = StartTime + o
    /\ UNCHANGED <<config, transport, contextFunc, pool, req, trial, boot, flights, reply, sent>>

\* main.go generateTokenFromArgs: the token printed, or the error.
generateTokenFromArgs(cfg, userID, username, role, expirationHours, clock) ==
    IF cfg.AuthSecretKey = <<>>
    THEN [token |-> <<>>,
          err |-> "PUSHOVER_AUTH_SECRET_KEY environment variable is required for token generation"]
    ELSE GenerateJWT(NewAuthMiddleware(cfg.AuthSecretKey, TRUE),
                     userID, username, role, expirationHours, clock)

\* The operator runs the command line with -generate-token, in the
\* environment of the server.
GenerateTokenCLI ==
    /\ Cardinality(pool) < MaxTokens
    /\ \E h \in {-1, 1}, ns \in Nanos :
         LET printed(g) ==
                 IF g.err # "" THEN pool
                 ELSE pool \cup {tokenEntry(g.token, "issued", config.AuthSecretKey,
                                            <<117>>, h, clockReading(ns))}
         IN  pool' = printed(generateTokenFromArgs(config, <<117>>, Username, Role,
                                                   h, clockReading(ns)))
    /\ UNCHANGED <<config, transport, contextFunc, now, req, trial, boot, flights, reply, sent>>

\* GenerateJWT on a middleware made with one of the secrets keys.
IssueWith(keys, users, hours) ==
    /\ Cardinality(pool) < MaxTokens
    /\ \E k \in keys, u \in users, h \in hours, ns \in Nanos :
         LET g == GenerateJWT(NewAuthMiddleware(k, TRUE), u, Username, Role, h,
                              clockReading(ns))
         IN  pool' = pool \cup {tokenEntry(g.token, "issued", k, u, h,
                                           clockReading(ns))}
    /\ UNCHANGED <<config, transport, contextFunc, now, req, trial, boot, flights, reply, sent>>

\* Someone who does not hold the server's secret makes a token with another.
ForeignToken == IssueWith({SecretS}, {<<117>>}, {1})

\* The context a request is served with: the HTTP server applies the
\* context function when one is installed; stdio has none.
requestContext(tr, cf, r, clock) ==
    IF tr = "http" /\ cf.set
    THEN HTTPContextFunc(cf.am, Background, r, clock)
    ELSE Background

\* An HTTP request with one of the headers arrives.
ReceiveHTTP ==
    /\ transport = "http"
    /\ req.pc = "idle"
    /\ \E hd \in Headers(pool) :
         LET r == [Method |-> MethodPost, Authorization |-> hd.value] IN
         req' = [IdleReq EXCEPT !.pc = "built", !.r = r, !.form = hd.form,
                                !.entry = hd.entry, !.at = now,
                                !.ctx = requestContext(transport, contextFunc, r,
                                                       clockReading(0))]
    /\ UNCHANGED <<config, transport, contextFunc, now, pool, trial, boot, flights, reply, sent>>

\* A tool call arrives on stdio.
ReceiveStdio ==
    /\ transport = "stdio"
    /\ req.pc = "idle"
    /\ req' = [IdleReq EXCEPT !.pc = "built", !.at = now,
                              !.ctx = requestContext(transport, contextFunc, IdleReq.r,
                                                     clockReading(0))]
    /\ UNCHANGED <<config, transport, contextFunc, now, pool, trial, boot, flights, reply, sent>>

\* The send_notification tool is called through wrapWithAuth.
CallTool ==
    /\ req.pc = "built"
    /\ \E h \in HandlerReturns :
         LET out == wrapWithAuth(config, req.ctx, h) IN
         req' = [req EXCEPT !.pc = "done", !.calls = out.calls,
                            !.result = out.result, !.err = out.err]
    /\ UNCHANGED <<config, transport, contextFunc, now, pool, trial, boot, flights, reply, sent>>

\* The response is written; the server waits for the next request.
Finish ==
    /\ req.pc = "done"
    /\ req' = IdleReq
    /\ UNCHANGED <<config, transport, contextFunc, now, pool, trial, boot, flights, reply, sent>>

(***************************************************************************)
(* The server: a configuration NewMCPConfig accepts, started on one of the *)
(* transports.                                                             *)
(***************************************************************************)
Init ==
    /\ config \in Configs
    /\ transport \in {"stdio", "http"}
    /\ contextFunc = runMCPServerWithTransport(transport, config)
    /\ now = StartTime
    /\ pool = {}
    /\ req = IdleReq
    /\ trial = NoTrial
    /\ boot = NoBoot
    /\ flights = NoFlights
    /\ reply = NoReply
    /\ sent = NoSent

Next ==
    \/ Tick
    \/ GenerateTokenCLI
    \/ ForeignToken
    \/ ReceiveHTTP
    \/ ReceiveStdio
    \/ CallTool
    \/ Finish

Spec == Init /\ [][Next]_vars

(***************************************************************************)
(* The guard alone: the function wrapWithAuth returns, called with any     *)
(* context.                                                                *)
(***************************************************************************)
Arrive ==
    /\ req.pc = "idle"
    /\ \E ctx \in Contexts :
         req' = [IdleReq EXCEPT !.pc = "built", !.at = now, !.ctx = ctx]
    /\ UNCHANGED <<config, transport, contextFunc, now, pool, trial, boot, flights, reply, sent>>

InitGuard ==
    /\ config \in Configs
    /\ transport \in {"stdio", "http"}
    /\ contextFunc = NoContextFunc
    /\ now = StartTime
    /\ pool = {}
    /\ req = IdleReq
    /\ trial = NoTrial
    /\ boot = NoBoot
    /\ flights = NoFlights
    /\ reply = NoReply
    /\ sent = NoSent

NextGuard ==
    \/ Arrive
    \/ CallTool
    \/ Finish

SpecGuard == InitGuard /\ [][NextGuard]_vars

(***************************************************************************)
(* Startup: the mcp subcommand is run in some environment; the server      *)
(* serves only after NewMCPConfig has accepted the configuration.          *)
(***************************************************************************)
\* The configuration of a process that serves nothing.
NilConfig == NewMCPConfig(FALSE, [BaseEnv EXCEPT !.APP_KEY = ""]).config

\* Environments the operator may run the server in.
LaunchEnvs ==
    { [BaseEnv EXCEPT !.PUSHOVER_AUTH_ENABLED = a, !.PUSHOVER_AUTH_SECRET_KEY = k,
                      !.APP_KEY = app, !.PUSHOVER_PRIORITY = p] :
          a \in {"", "true", "1", "yes", "false"}, k \in {<<>>, SecretK},
          app \in {"", "app"}, p \in {<<>>, <<50>>, <<51>>} }

\* parseMCPArgs without -generate-token: runMCPServerWithTransport loads the
\* configuration and starts the transport, or returns the error.
Launch ==
    /\ transport = "none"
    /\ \E flag \in BOOLEAN, env \in LaunchEnvs, mode \in {"stdio", "http", "sse"} :
         LET ran(err) ==
                 [ran |-> TRUE, authEnabledFlag |-> flag, env |-> env,
                  transportMode |-> mode, err |-> err]
             loaded(c) ==
                 IF c.err # ""
                 THEN /\ boot' = ran("failed to load configuration: " \o c.err)
                      /\ UNCHANGED <<config, transport, contextFunc>>
                 ELSE IF mode \notin {"stdio", "http"}
                 THEN /\ boot' = ran("unsupported transport: " \o mode
                                         \o " (supported: stdio, http)")
                      /\ UNCHANGED <<config, transport, contextFunc>>
                 ELSE /\ boot' = ran("")
                      /\ config' = c.config
                      /\ transport' = mode
                      /\ contextFunc' = runMCPServerWithTransport(mode, c.config)
         IN  loaded(NewMCPConfig(flag, env))
    /\ UNCHANGED <<now, pool, req, trial, flights, reply, sent>>

InitStartup ==
    /\ config = NilConfig
    /\ transport = "none"
    /\ contextFunc = NoContextFunc
    /\ now = StartTime
    /\ pool = {}
    /\ req = IdleReq
    /\ trial = NoTrial
    /\ boot = NoBoot
    /\ flights = NoFlights
    /\ reply = NoReply
    /\ sent = NoSent

NextStartup ==
    \/ Launch
    \/ ReceiveHTTP
    \/ ReceiveStdio
    \/ CallTool
    \/ Finish

SpecStartup == InitStartup /\ [][NextStartup]_vars

(***************************************************************************)
(* The middleware alone: a context function made with either value of the  *)
(* enabled flag, installed on an HTTP server.                              *)
(***************************************************************************)
IssueServer == IssueWith({SecretK}, {<<117>>}, {-1, 1})

InitMiddleware ==
    /\ \E enabled \in BOOLEAN :
         /\ config = [AuthEnabled |-> enabled, AuthSecretKey |-> SecretK]
         /\ contextFunc = [set |-> TRUE, am |-> NewAuthMiddleware(SecretK, enabled)]
    /\ transport = "http"
    /\ now = StartTime
    /\ pool = {}
    /\ req = IdleReq
    /\ trial = NoTrial
    /\ boot = NoBoot
    /\ flights = NoFlights
    /\ reply = NoReply
    /\ sent = NoSent

NextMiddleware ==
    \/ Tick
    \/ IssueServer
    \/ ReceiveHTTP
    \/ CallTool
    \/ Finish

SpecMiddleware == InitMiddleware /\ [][NextMiddleware]_vars

(***************************************************************************)
(* Concurrent requests: the HTTP server runs the context function and the  *)
(* guard of each request in its own goroutine; a slot advances one         *)
(* statement group of HTTPContextFunc at a time, interleaved with the      *)
(* other slots and with the clock.                                         *)
(***************************************************************************)
\* The slots after slot i has run its next statements, were the claims
\* validateJWT returns kept in one place for all requests.
advanceSharingClaims(fs, i, am, cfg, clock) ==
    LET f == fs[i]
        to(g) == [fs EXCEPT ![i] = g]
        reject(ctx, msg) ==
            WithValue(WithValue(ctx, contextKeyAuthError, msg),
                      contextKeyAuthenticated, FALSE)
        method(ctx) ==
            IF ~am.enabled
            THEN to([f EXCEPT !.pc = "guard",
                              !.ctx = WithValue(ctx, contextKeyAuthenticated, TRUE)])
            ELSE to([f EXCEPT !.pc = "extract", !.ctx = ctx])
        extracted(token) ==
            IF token = <<>>
            THEN to([f EXCEPT !.pc = "guard",
                              !.ctx = reject(f.ctx, "missing or invalid authorization header")])
            ELSE to([f EXCEPT !.pc = "validate", !.token = token])
        validated(v) ==
            [j \in DOMAIN fs |->
               IF j # i THEN [fs[j] EXCEPT !.claims = v.claims]
               ELSE IF v.err # ""
               THEN [f EXCEPT !.pc = "guard", !.claims = v.claims,
                              !.ctx = reject(f.ctx, "invalid token: " \o v.err)]
               ELSE [f EXCEPT !.pc = "expiry", !.claims = v.claims]]
    IN  CASE f.pc = "method" ->
               method(WithValue(Background, contextKeyHTTPMethod, f.r.Method))
          [] f.pc = "extract" -> extracted(extractTokenFromHeader(f.r))
          [] f.pc = "validate" -> validated(validateJWT(am, f.token))
          [] f.pc = "expiry" ->
               IF Unix(clock) > f.claims.ExpiresAt
               THEN to([f EXCEPT !.pc = "guard", !.readAt = clock.sec,
                                 !.ctx = reject(f.ctx, "token expired")])
               ELSE to([f EXCEPT !.pc = "identity", !.readAt = clock.sec])
          [] f.pc = "identity" ->
               to([f EXCEPT !.pc = "guard",
                            !.ctx = WithValue(WithValue(WithValue(WithValue(f.ctx,
                                        contextKeyUserID, f.claims.UserID),
                                        contextKeyUsername, f.claims.Username),
                                        contextKeyRole, f.claims.Role),
                                        contextKeyAuthenticated, TRUE)])
          [] f.pc = "guard" ->
               to([f EXCEPT !.pc = "served",
                            !.calls = wrapWithAuth(cfg, f.ctx,
                                          CHOOSE h \in HandlerReturns : TRUE).calls])
          [] OTHER -> fs

\* A context function that takes a token once: a token another request was
\* admitted with is refused as expired.
advanceOnce(fs, i, am, cfg, clock) ==
    LET f == fs[i]
        to(g) == [fs EXCEPT ![i] = g]
        reject(ctx, msg) ==
            WithValue(WithValue(ctx, contextKeyAuthError, msg),
                      contextKeyAuthenticated, FALSE)
        method(ctx) ==
            IF ~am.enabled
            THEN to([f EXCEPT !.pc = "guard",
                              !.ctx = WithValue(ctx, contextKeyAuthenticated, TRUE)])
            ELSE to([f EXCEPT !.pc = "extract", !.ctx = ctx])
        extracted(token) ==
            IF token = <<>>
            THEN to([f EXCEPT !.pc = "guard",
                              !.ctx = reject(f.ctx, "missing or invalid authorization header")])
            ELSE to([f EXCEPT !.pc = "validate", !.token = token])
        validated(v) ==
            IF v.err # ""
            THEN to([f EXCEPT !.pc = "guard",
                              !.ctx = reject(f.ctx, "invalid token: " \o v.err)])
            ELSE to([f EXCEPT !.pc = "expiry", !.claims = v.claims])
    IN  CASE f.pc = "method" ->
               method(WithValue(Background, contextKeyHTTPMethod, f.r.Method))
          [] f.pc = "extract" -> extracted(extractTokenFromHeader(f.r))
          [] f.pc = "validate" -> validated(validateJWT(am, f.token))
          [] f.pc = "expiry" ->
               IF \/ Unix(clock) > f.claims.ExpiresAt
                  \/ \E j \in DOMAIN fs :
                         /\ j # i
                         /\ fs[j].token = f.token
                         /\ fs[j].pc \in {"identity", "guard", "served"}
               THEN to([f EXCEPT !.pc = "guard", !.readAt = clock.sec,
                                 !.ctx = reject(f.ctx, "token expired")])
               ELSE to([f EXCEPT !.pc = "identity", !.readAt = clock.sec])
          [] f.pc = "identity" ->
               to([f EXCEPT !.pc = "guard",
                            !.ctx = WithValue(WithValue(WithValue(WithValue(f.ctx,
                                        contextKeyUserID, f.claims.UserID),
                                        contextKeyUsername, f.claims.Username),
                                        contextKeyRole, f.claims.Role),
                                        contextKeyAuthenticated, TRUE)])
          [] f.pc = "guard" ->
               to([f EXCEPT !.pc = "served",
                            !.calls = wrapWithAuth(cfg, f.ctx,
                                          CHOOSE h \in HandlerReturns : TRUE).calls])
          [] OTHER -> fs

\* The slots after slot i has run its next statements of HTTPContextFunc
\* (the method, the extraction, validateJWT, the expiry, the identity) or of
\* the guard.  Every value is a local of the goroutine of the request.
advance(fs, i, am, cfg, clock) ==
    LET f == fs[i]
        to(g) == [fs EXCEPT ![i] = g]
        reject(ctx, msg) ==
            WithValue(WithValue(ctx, contextKeyAuthError, msg),
                      contextKeyAuthenticated, FALSE)
        method(ctx) ==
            IF ~am.enabled
            THEN to([f EXCEPT !.pc = "guard",
                              !.ctx = WithValue(ctx, contextKeyAuthenticated, TRUE)])
            ELSE to([f EXCEPT !.pc = "extract", !.ctx = ctx])
        extracted(token) ==
            IF token = <<>>
            THEN to([f EXCEPT !.pc = "guard",
                              !.ctx = reject(f.ctx, "missing or invalid authorization header")])
            ELSE to([f EXCEPT !.pc = "validate", !.token = token])
        validated(v) ==
            IF v.err # ""
            THEN to([f EXCEPT !.pc = "guard",
                              !.ctx = reject(f.ctx, "invalid token: " \o v.err)])
            ELSE to([f EXCEPT !.pc = "expiry", !.claims = v.claims])
    IN  CASE f.pc = "method" ->
               method(WithValue(Background, contextKeyHTTPMethod, f.r.Method))
          [] f.pc = "extract" -> extracted(extractTokenFromHeader(f.r))
          [] f.pc = "validate" -> validated(validateJWT(am, f.token))
          [] f.pc = "expiry" ->
               IF Unix(clock) > f.claims.ExpiresAt
               THEN to([f EXCEPT !.pc = "guard", !.readAt = clock.sec,
                                 !.ctx = reject(f.ctx, "token expired")])
               ELSE to([f EXCEPT !.pc = "identity", !.readAt = clock.sec])
          [] f.pc = "identity" ->
               to([f EXCEPT !.pc = "guard",
                            !.ctx = WithValue(WithValue(WithValue(WithValue(f.ctx,
                                        contextKeyUserID, f.claims.UserID),
                                        contextKeyUsername, f.claims.Username),
                                        contextKeyRole, f.claims.Role),
                                        contextKeyAuthenticated, TRUE)])
          [] f.pc = "guard" ->
               to([f EXCEPT !.pc = "served",
                            !.calls = wrapWithAuth(cfg, f.ctx,
                                          CHOOSE h \in HandlerReturns : TRUE).calls])
          [] OTHER -> fs

\* A request arrives while others may be in flight.
Accept ==
    /\ transport = "http" /\ contextFunc.set
    /\ \E i \in 1..MaxFlights, hd \in Headers(pool) :
         /\ flights[i].pc = "idle"
         /\ flights' = [flights EXCEPT
                          ![i] = [IdleFlight EXCEPT
                                    !.pc = "method",
                                    !.r = [Method |-> MethodPost,
                                           Authorization |-> hd.value]]]
    /\ UNCHANGED <<config, transport, contextFunc, now, pool, req, trial,
                   boot, reply, sent>>

\* The goroutine of one request runs its next statements.
Step ==
    /\ \E i \in 1..MaxFlights :
         /\ flights[i].pc \notin {"idle", "served"}
         /\ flights' = advance(flights, i, contextFunc.am, config, clockReading(0))
    /\ UNCHANGED <<config, transport, contextFunc, now, pool, req, trial,
                   boot, reply, sent>>

\* The response of one request is written.
Release ==
    /\ \E i \in 1..MaxFlights :
         /\ flights[i].pc = "served"
         /\ flights' = [flights EXCEPT ![i] = IdleFlight]
    /\ UNCHANGED <<config, transport, contextFunc, now, pool, req, trial,
                   boot, reply, sent>>

\* A token of one hour made with the secret of the server.
IssueHour == IssueWith({SecretK}, {<<117>>}, {1})

NextFlights ==
    \/ Tick
    \/ IssueHour
    \/ Accept
    \/ Step
    \/ Release

SpecFlights == InitMiddleware /\ [][NextFlights]_vars

(***************************************************************************)
(* Notifications: the handler of send_notification called as the tests     *)
(* call it, and the command line.                                          *)
(***************************************************************************)
\* A message of n bytes, all "a".
messageOf(n) == [i \in 1..n |-> 97]

\* The arguments of a call: the message missing, not a string, empty, short,
\* of 1024 bytes and of 1025; the priority and the expire value missing,
\* empty, of every kind of text.  "0" is <<48>>, "-" is 45, "+" is 43.
MessageArgs ==
    {NoArg, [kind |-> "number", val |-> <<>>]}
        \cup { [kind |-> "string", val |-> messageOf(n)] : n \in {0, 2, 1024, 1025} }
PriorityArgs ==
    {NoArg}
        \cup { [kind |-> "string", val |-> v] :
                   v \in {<<>>, <<48>>, <<49>>, <<50>>, <<45, 49>>, <<45, 50>>,
                          <<43, 49>>, <<51>>, <<53>>, <<45, 51>>,
                          <<104, 105, 103, 104>>, <<49, 46, 53>>} }
ExpireArgs ==
    {NoArg}
        \cup { [kind |-> "string", val |-> v] :
                   v \in {<<48>>, <<54, 48>>, <<120>>} }
ToolArgs ==
    { [message |-> m, title |-> t, priority |-> p, device |-> NoText,
       sound |-> NoText, expire |-> e] :
          m \in MessageArgs, t \in {NoText, [kind |-> "string", val |-> "T"]},
          p \in PriorityArgs, e \in ExpireArgs }

\* What SendMessage returns when it is called: no receipt, a receipt, an
\* error.
SendOutcomes ==
    {[receipt |-> "", err |-> ""], [receipt |-> "r1", err |-> ""],
     [receipt |-> "", err |-> "invalid token"]}

\* Environments that differ in the default priority ("1") and expire time
\* ("60"), and the configurations of the server made from them; one more
\* without an application key, as a test can make it.
NotifyEnvs ==
    { [BaseEnv EXCEPT !.PUSHOVER_PRIORITY = p, !.PUSHOVER_EXPIRE = e] :
          p \in {<<>>, <<49>>}, e \in {<<>>, <<54, 48>>} }
NotifyConfigs ==
    { NewMCPConfig(FALSE, env).config : env \in NotifyEnvs }
        \cup { [NewMCPConfig(FALSE, BaseEnv).config EXCEPT !.PushoverAppKey = ""] }

\* The contexts a tool call arrives with: stdio, and an authenticated HTTP
\* request of user "n".
NotifyContexts ==
    {Background,
     WithValue(WithValue(WithValue(Background, "http_method", <<80, 79, 83, 84>>),
                         "authenticated", TRUE), "username", Username)}

\* Command lines: -m with or without -p and -e.
CommandLines ==
    { [NoFlags EXCEPT !.m = m, !.p = p, !.e = e] :
          m \in {<<>>, messageOf(2)},
          p \in {[set |-> FALSE, val |-> 0]}
                    \cup { [set |-> TRUE, val |-> v] : v \in -2..2 },
          e \in {[set |-> FALSE, val |-> 0], [set |-> TRUE, val |-> 0],
                 [set |-> TRUE, val |-> 60]} }

\* One call of the send_notification tool; the record keeps one call.
Notify ==
    /\ ~sent.ran
    /\ \E ctx \in NotifyContexts, args \in ToolArgs, cfg \in NotifyConfigs,
          outcome \in SendOutcomes :
           sent' = [ran |-> TRUE, entry |-> "tool", args |-> args, flags |-> NoFlags,
                    legacy |-> ToLegacyConfig(cfg),
                    out |-> handleSendNotification(ctx, args, cfg, outcome,
                                                  clockReading(0))]
    /\ UNCHANGED <<config, transport, contextFunc, now, pool, req, trial, boot,
                   flights, reply>>

\* One run of the command line.
RunCLI ==
    /\ ~sent.ran
    /\ \E flags \in CommandLines, env \in NotifyEnvs, outcome \in SendOutcomes :
           sent' = [ran |-> TRUE, entry |-> "cli", args |-> NoArgs, flags |-> flags,
                    legacy |-> LoadConfig(env),
                    out |-> Run(flags, env, outcome, clockReading(0))]
    /\ UNCHANGED <<config, transport, contextFunc, now, pool, req, trial, boot,
                   flights, reply>>

NextNotify == Tick \/ Notify \/ RunCLI

SpecNotify == InitMiddleware /\ [][NextNotify]_vars

(***************************************************************************)
(* The token endpoint on a running HTTP server, and the tool calls that    *)
(* present what it issued.                                                 *)
(***************************************************************************)
member(name, kind, str, num) == [name |-> name, kind |-> kind, str |-> str, num |-> num]
object(members) == [kind |-> "object", members |-> members]

\* Request bodies: none, not JSON, null, [], {}, every field given, an
\* expires_in of 0, of -5, of "1", of 1.5 and of 5124095, a user_id of 7 and
\* of "", USER_ID for user_id, a role of null, and a member no field has.
Bodies ==
    { [kind |-> k, members |-> <<>>] : k \in {"empty", "garbage", "null", "array"} }
        \cup
    { object(<<>>),
      object(<<member(<<117, 115, 101, 114, 95, 105, 100>>, "string", <<117>>, 0),
               member(<<117, 115, 101, 114, 110, 97, 109, 101>>, "string", Username, 0),
               member(<<114, 111, 108, 101>>, "string", Role, 0),
               member(<<101, 120, 112, 105, 114, 101, 115, 95, 105, 110>>, "integer", <<>>, 1)>>),
      object(<<member(<<101, 120, 112, 105, 114, 101, 115, 95, 105, 110>>, "integer", <<>>, 0)>>),
      object(<<member(<<101, 120, 112, 105, 114, 101, 115, 95, 105, 110>>, "integer", <<>>, -5)>>),
      object(<<member(<<101, 120, 112, 105, 114, 101, 115, 95, 105, 110>>, "string", <<49>>, 0)>>),
      object(<<member(<<101, 120, 112, 105, 114, 101, 115, 95, 105, 110>>, "fraction", <<>>, 1)>>),
      object(<<member(<<101, 120, 112, 105, 114, 101, 115, 95, 105, 110>>, "integer", <<>>, 5124095)>>),
      object(<<member(<<117, 115, 101, 114, 95, 105, 100>>, "integer", <<>>, 7)>>),
      object(<<member(<<117, 115, 101, 114, 95, 105, 100>>, "string", <<>>, 0)>>),
      object(<<member(<<85, 83, 69, 82, 95, 73, 68>>, "string", <<117>>, 0)>>),
      object(<<member(<<114, 111, 108, 101>>, "null", <<>>, 0)>>),
      object(<<member(<<111, 116, 104, 101, 114>>, "true", <<>>, 0)>>) }

\* "GET", "POST", "OPTIONS"
Methods == {<<71, 69, 84>>, MethodPost, MethodOptions}

\* Servers with and without authentication, with and without CORS.
EndpointConfigs ==
    { NewMCPConfig(FALSE, [BaseEnv EXCEPT !.PUSHOVER_AUTH_ENABLED = a,
                                          !.PUSHOVER_AUTH_SECRET_KEY = SecretK,
                                          !.PUSHOVER_HTTP_CORS_ENABLED = c]).config :
          a \in {"", "true"}, c \in {"", "false"} }

\* A client asks /generate-token for a token, with or without an
\* Authorization header ("Bearer x"); what it is given goes into circulation.
\* The record keeps one request.
RequestTokenWith(methods, bodies) ==
    /\ transport = "http"
    /\ reply = NoReply
    /\ Cardinality(pool) < MaxTokens
    /\ \E method \in methods, body \in bodies, ns \in Nanos,
          authorization \in {<<>>, bearerPrefix \o <<120>>} :
         LET given(out) ==
                 /\ reply' = [r |-> [Method |-> method, Body |-> body,
                                     Authorization |-> authorization],
                              w |-> out]
                 /\ pool' = IF out.token = <<>> THEN pool
                            ELSE pool \cup {tokenEntry(out.token, "endpoint",
                                                       config.AuthSecretKey,
                                                       out.user_id, out.expires_in,
                                                       clockReading(ns))}
         IN  given(ServeGenerateToken(config,
                                      [Method |-> method, Body |-> body,
                                       Authorization |-> authorization],
                                      clockReading(ns), clockReading(ns)))
    /\ UNCHANGED <<config, transport, contextFunc, now, req, trial, boot, flights,
                   sent>>

InitEndpoint ==
    /\ \E cfg \in EndpointConfigs :
         /\ config = cfg
         /\ contextFunc = runMCPServerWithTransport("http", cfg)
    /\ transport = "http"
    /\ now = StartTime
    /\ pool = {}
    /\ req = IdleReq
    /\ trial = NoTrial
    /\ boot = NoBoot
    /\ flights = NoFlights
    /\ reply = NoReply
    /\ sent = NoSent

RequestToken == RequestTokenWith(Methods, Bodies)

NextEndpoint == Tick \/ RequestToken

SpecEndpoint == InitEndpoint /\ [][NextEndpoint]_vars

\* A client that asks for a token by POST, with {} or with every field
\* given, and the tool calls that follow.
RequestTokenByPost ==
    RequestTokenWith({MethodPost},
                     {b \in Bodies : b.kind = "object" /\ Len(b.members) \in {0, 4}})

NextIssueAndUse == Tick \/ RequestTokenByPost \/ ReceiveHTTP \/ CallTool \/ Finish

SpecIssueAndUse == InitEndpoint /\ [][NextIssueAndUse]_vars

(***************************************************************************)
(* The codec alone: tokens are issued and forged, then verified under one  *)
(* of the secrets, directly and through a middleware made with it.         *)
(***************************************************************************)
IssueAny == IssueWith({SecretK}, UserIDs, HoursSet)

\* A token with another declared algorithm, signed with the server's secret.
Forge ==
    /\ Cardinality(pool) < MaxTokens
    /\ \E alg \in OtherAlgs :
         pool' = pool \cup
             {tokenEntry(forgeToken(SecretK, alg,
                                    [UserID |-> <<117>>, Username |-> Username,
                                     Role |-> Role, IssuedAt |-> now,
                                     ExpiresAt |-> now + 3600]),
                         "forged", SecretK, <<117>>, 1, clockReading(0))}
    /\ UNCHANGED <<config, transport, contextFunc, now, req, trial, boot, flights, reply, sent>>

Verify ==
    /\ trial = NoTrial
    /\ \E e \in pool, secret \in Secrets :
         trial' = [NoTrial EXCEPT
                     !.kind = "verify", !.entry = e, !.secret = secret, !.at = now,
                     !.presented = e.token,
                     !.res = validateJWT(NewAuthMiddleware(secret, TRUE), e.token),
                     !.ctx = HTTPContextFunc(
                                 NewAuthMiddleware(secret, TRUE), Background,
                                 [Method |-> MethodPost,
                                  Authorization |-> bearerPrefix \o e.token],
                                 clockReading(0))]
    /\ UNCHANGED <<config, transport, contextFunc, now, pool, req, boot, flights, reply, sent>>

Discard ==
    /\ trial # NoTrial
    /\ trial' = NoTrial
    /\ UNCHANGED <<config, transport, contextFunc, now, pool, req, boot, flights, reply, sent>>

InitCodec ==
    /\ config = [AuthEnabled |-> TRUE, AuthSecretKey |-> SecretK]
    /\ transport = "http"
    /\ contextFunc = Start(config)
    /\ now = StartTime
    /\ pool = {}
    /\ req = IdleReq
    /\ trial = NoTrial
    /\ boot = NoBoot
    /\ flights = NoFlights
    /\ reply = NoReply
    /\ sent = NoSent

NextCodec ==
    \/ Tick
    \/ IssueAny
    \/ ForeignToken
    \/ Forge
    \/ Verify
    \/ Discard

SpecCodec == InitCodec /\ [][NextCodec]_vars

(***************************************************************************)
(* Tampering: one character of the signature segment of an issued token is *)
(* replaced by another character of the alphabet, and the result verified. *)
(***************************************************************************)
TamperVerify ==
    /\ trial = NoTrial
    /\ \E e \in pool :
         \E pos \in 1..Len(Split(e.token, 46)[3]), k \in 1..64 :
           /\ encodeURL[k] # Split(e.token, 46)[3][pos]
           /\ trial' = [NoTrial EXCEPT
                          !.kind = "tamper", !.entry = e, !.secret = e.key,
                          !.at = now, !.pos = pos,
                          !.presented = tamper(e.token, pos, encodeURL[k]),
                          !.res = validateJWT(NewAuthMiddleware(e.key, TRUE),
                                              tamper(e.token, pos, encodeURL[k]))]
    /\ UNCHANGED <<config, transport, contextFunc, now, pool, req, boot, flights, reply, sent>>

InitTamper ==
    /\ config = [AuthEnabled |-> TRUE, AuthSecretKey |-> SecretK]
    /\ transport = "http"
    /\ contextFunc = Start(config)
    /\ now = StartTime
    /\ \E u \in UserIDs :
         pool = {tokenEntry(GenerateJWT(NewAuthMiddleware(SecretK, TRUE), u,
                                        Username, Role, 1,
                                        [sec |-> StartTime, nsec |-> 0]).token,
                            "issued", SecretK, u, 1,
                            [sec |-> StartTime, nsec |-> 0])}
    /\ req = IdleReq
    /\ trial = NoTrial
    /\ boot = NoBoot
    /\ flights = NoFlights
    /\ reply = NoReply
    /\ sent = NoSent

NextTamper ==
    \/ TamperVerify
    \/ Discard

SpecTamper == InitTamper /\ [][NextTamper]_vars

(***************************************************************************)
(* Shapes: token strings and Authorization headers of every shape, given   *)
(* to the codec and to the middleware.                                     *)
(***************************************************************************)
\* header "." payload "." signature, signed as GenerateJWT signs.
signSegments(key, header, payload) ==
    LET sign(signingInput) ==
            signingInput \o <<46>>
                \o createSignature(NewAuthMiddleware(key, TRUE), signingInput)
    IN  sign(header \o <<46>> \o payload)

\* Token strings: "", "a", "a.b", "a.b.c", "a.b.c.d", "..", "a.!.b"; for a
\* token in circulation, the token followed by ".x" and the token without
\* its signature segment; and, signed with the server's secret, payloads
\* that are not base64 ("!"), empty, or the base64 of "{", "[1]", "null" and
\* {"exp":"x"}.
ShapedTokens(entries) ==
    { [form |-> "empty", value |-> <<>>],
      [form |-> "one", value |-> <<97>>],
      [form |-> "two", value |-> <<97, 46, 98>>],
      [form |-> "three", value |-> <<97, 46, 98, 46, 99>>],
      [form |-> "four", value |-> <<97, 46, 98, 46, 99, 46, 100>>],
      [form |-> "dots", value |-> <<46, 46>>],
      [form |-> "unsigned-undecodable", value |-> <<97, 46, 33, 46, 98>>],
      [form |-> "signed-undecodable",
       value |-> signSegments(SecretK, <<97>>, <<33>>)],
      [form |-> "signed-empty", value |-> signSegments(SecretK, <<97>>, <<>>)],
      [form |-> "signed-brace",
       value |-> signSegments(SecretK, <<97>>, EncodeToString(<<123>>))],
      [form |-> "signed-array",
       value |-> signSegments(SecretK, <<97>>, EncodeToString(<<91, 49, 93>>))],
      [form |-> "signed-null",
       value |-> signSegments(SecretK, <<97>>,
                              EncodeToString(<<110, 117, 108, 108>>))],
      [form |-> "signed-typed",
       value |-> signSegments(SecretK, <<97>>,
                     EncodeToString(<<123, 34, 101, 120, 112, 34, 58,
                                      34, 120, 34, 125>>))] }
    \cup { [form |-> "extra", value |-> e.token \o <<46, 120>>] : e \in entries }
    \cup { [form |-> "cut",
            value |-> Split(e.token, 46)[1] \o <<46>> \o Split(e.token, 46)[2]] :
               e \in entries }
    \cup { [form |-> "whole", value |-> e.token] : e \in entries }

\* A token string is given to validateJWT under the server's secret.
VerifyShaped ==
    /\ trial = NoTrial
    /\ req.pc = "idle"
    /\ \E t \in ShapedTokens(pool) :
         trial' = [NoTrial EXCEPT
                     !.kind = t.form, !.secret = SecretK, !.at = now,
                     !.presented = t.value,
                     !.res = validateJWT(NewAuthMiddleware(SecretK, TRUE), t.value)]
    /\ UNCHANGED <<config, transport, contextFunc, now, pool, req, boot, flights, reply, sent>>

\* Authorization headers: none, "Basic abcdef", "Bearer", "Bearer ", every
\* non-empty token string after "Bearer ", and for a token in circulation:
\* "Bearer   <token>", "bearer <token>", "BEARER <token>",
\* "Bearer <token> x", "Bearer<TAB><token>" and " Bearer <token>".
ShapedHeaders(entries) ==
    { [form |-> "absent", entry |-> NoEntry, value |-> <<>>],
      [form |-> "basic", entry |-> NoEntry,
       value |-> <<66, 97, 115, 105, 99, 32, 97, 98, 99, 100, 101, 102>>],
      [form |-> "scheme-only", entry |-> NoEntry,
       value |-> <<66, 101, 97, 114, 101, 114>>],
      [form |-> "scheme-space", entry |-> NoEntry, value |-> bearerPrefix] }
    \cup { [form |-> t.form, entry |-> NoEntry, value |-> bearerPrefix \o t.value] :
               t \in {x \in ShapedTokens({}) : x.value # <<>>} }
    \cup { [form |-> "extra", entry |-> e,
            value |-> bearerPrefix \o e.token \o <<46, 120>>] : e \in entries }
    \cup { [form |-> "bearer", entry |-> e, value |-> bearerPrefix \o e.token] :
               e \in entries }
    \cup { [form |-> "spaces", entry |-> e,
            value |-> <<66, 101, 97, 114, 101, 114, 32, 32, 32>> \o e.token] :
               e \in entries }
    \cup { [form |-> "lower", entry |-> e,
            value |-> <<98, 101, 97, 114, 101, 114, 32>> \o e.token] : e \in entries }
    \cup { [form |-> "upper", entry |-> e,
            value |-> <<66, 69, 65, 82, 69, 82, 32>> \o e.token] : e \in entries }
    \cup { [form |-> "three-fields", entry |-> e,
            value |-> bearerPrefix \o e.token \o <<32, 120>>] : e \in entries }
    \cup { [form |-> "tab", entry |-> e,
            value |-> <<66, 101, 97, 114, 101, 114, 9>> \o e.token] : e \in entries }
    \cup { [form |-> "leading", entry |-> e,
            value |-> <<32>> \o bearerPrefix \o e.token] : e \in entries }

\* "GET"
MethodGet == <<71, 69, 84>>

\* An HTTP request with a header of one of the shapes arrives.
ReceiveShaped ==
    /\ transport = "http"
    /\ req.pc = "idle"
    /\ trial = NoTrial
    /\ \E hd \in ShapedHeaders(pool), method \in {MethodPost, MethodGet} :
         LET r == [Method |-> method, Authorization |-> hd.value] IN
         req' = [IdleReq EXCEPT !.pc = "built", !.r = r, !.form = hd.form,
                                !.entry = hd.entry, !.at = now,
                                !.ctx = requestContext(transport, contextFunc, r,
                                                       clockReading(0))]
    /\ UNCHANGED <<config, transport, contextFunc, now, pool, trial, boot, flights, reply, sent>>

\* The request is not a call of the tool (initialize, tools/list): it is
\* answered without the guard.
ServeOther ==
    /\ req.pc = "built"
    /\ req' = IdleReq
    /\ UNCHANGED <<config, transport, contextFunc, now, pool, trial, boot, flights, reply, sent>>

NextShapes ==
    \/ Tick
    \/ IssueServer
    \/ ReceiveShaped
    \/ ServeOther
    \/ VerifyShaped
    \/ Discard

SpecShapes == InitMiddleware /\ [][NextShapes]_vars

(***************************************************************************)
(* Properties                                                              *)
(***************************************************************************)
\* The signature segment of a three-segment token is the HMAC of its first
\* two segments under key.
SignedUnder(token, key) ==
    /\ Len(Split(token, 46)) = 3
    /\ Split(token, 46)[3] =
           EncodeToString(hmacSum(key, Split(token, 46)[1] \o <<46>>
                                           \o Split(token, 46)[2]))

\* The bearer token of the request being served.
BearerOf(r) == TrimPrefix(r.Authorization, bearerPrefix)

GuardRejects ==
    (req.pc = "done" /\ isHTTPRequest(req.ctx) /\ config.AuthEnabled
       /\ ~isAuthenticated(req.ctx))
        => /\ req.calls = 0
           /\ req.result = NewToolResultError("Authentication required: "
                                              \o getAuthError(req.ctx))
           /\ req.err = ""

\* The guard has rejected a call whose context carries an error.
GuardRejected ==
    /\ req.pc = "done" /\ isHTTPRequest(req.ctx) /\ config.AuthEnabled
    /\ ~isAuthenticated(req.ctx) /\ getAuthError(req.ctx) = "token expired"
    /\ req.calls = 0 /\ req.result.IsError

\* C3: called with a context that records no HTTP method, the guard calls
\* the handler exactly once, whatever authenticated is and whether or not
\* authentication is enabled.
NonHTTPBypass ==
    (req.pc = "done" /\ ~isHTTPRequest(req.ctx)) => req.calls = 1

\* A call without HTTP method and without authentication went through while
\* authentication was enabled.
NonHTTPPassed ==
    /\ req.pc = "done" /\ ~isHTTPRequest(req.ctx) /\ config.AuthEnabled
    /\ contextKeyAuthenticated \in DOMAIN req.ctx /\ ~isAuthenticated(req.ctx)
    /\ req.calls = 1

\* C4: a middleware made with enabled = FALSE builds, for every request, a
\* context with authenticated = TRUE and no auth_error, whatever the
\* Authorization header holds.
DisabledAuthBypass ==
    (req.pc # "idle" /\ contextFunc.set /\ ~contextFunc.am.enabled)
        => /\ contextKeyAuthenticated \in DOMAIN req.ctx
           /\ req.ctx[contextKeyAuthenticated] = TRUE
           /\ contextKeyAuthError \notin DOMAIN req.ctx

\* A request with a tampered token was served by a disabled middleware.
DisabledServedTampered ==
    /\ req.pc = "built" /\ contextFunc.set /\ ~contextFunc.am.enabled
    /\ req.form = "tampered" /\ isAuthenticated(req.ctx)

RoundTrip ==
    (trial.kind = "verify" /\ trial.entry.kind = "issued"
       /\ trial.secret = trial.entry.key /\ trial.entry.hours > 0)
        => /\ trial.res.err = ""
           /\ trial.res.claims.UserID = trial.entry.userID
           /\ trial.res.claims.Username = Username
           /\ trial.res.claims.Role = Role
           /\ trial.res.claims.IssuedAt = trial.entry.iat
           /\ (trial.res.claims.ExpiresAt - trial.res.claims.IssuedAt) % 3600 = 0
           /\ (trial.res.claims.ExpiresAt - trial.res.claims.IssuedAt) \div 3600
                  = trial.entry.hours

CrossSecretAnyDistinct ==
    (trial.kind = "verify" /\ trial.entry.kind = "issued"
       /\ trial.secret # trial.entry.key)
        => /\ trial.res.err = "invalid signature"
           /\ ~isAuthenticated(trial.ctx)

\* C9, amended: the same for every secret B that differs from A as an HMAC
\* key, that is after hmac.New has hashed a key longer than a block and
\* padded it with zero bytes.
CrossSecretRejection ==
    (trial.kind = "verify" /\ trial.entry.kind = "issued"
       /\ hmacKey(trial.secret) # hmacKey(trial.entry.key))
        => /\ trial.res.err = "invalid signature"
           /\ contextKeyAuthenticated \in DOMAIN trial.ctx
           /\ trial.ctx[contextKeyAuthenticated] = FALSE

\* A token issued with "k" was refused under "s".
CrossSecretRefused ==
    /\ trial.kind = "verify" /\ trial.entry.kind = "issued"
    /\ trial.entry.key = SecretK /\ trial.secret = SecretS
    /\ trial.res.err = "invalid signature"

SegmentCount ==
    (trial.kind # "none" /\ Len(Split(trial.presented, 46)) # 3)
        => /\ trial.res.err = "invalid token format"
           /\ trial.res.claims = ZeroClaims

\* A valid token followed by ".x" was refused for its format.
FourSegmentsRefused ==
    /\ trial.kind = "extra"
    /\ Len(Split(trial.presented, 46)) = 4
    /\ SignedUnder(SubSeq(trial.presented, 1, Len(trial.presented) - 2),
                   trial.secret)
    /\ trial.res.err = "invalid token format"

payloadMembers(token, name) ==
    LET named(parsed) ==
            IF parsed.err # "" \/ parsed.val.t # "object" THEN {}
            ELSE {parsed.val.members[i][2] :
                    i \in {j \in 1..Len(parsed.val.members) :
                             parsed.val.members[j][1] = name}}
    IN  named(ParseJSON(DecodeString(Split(token, 46)[2]).val))

\* "pushover-mcp" as the issuer and "pushover-mcp-user" as the audience (a
\* string or an array) of a token.
CarriesIssuerAudience(token) ==
    /\ [t |-> "string",
        s |-> <<112, 117, 115, 104, 111, 118, 101, 114, 45, 109, 99, 112>>]
           \in payloadMembers(token, <<105, 115, 115>>)
    /\ \E v \in payloadMembers(token, <<97, 117, 100>>) :
         \/ v.t = "array"
         \/ v = [t |-> "string",
                 s |-> <<112, 117, 115, 104, 111, 118, 101, 114, 45, 109, 99,
                         112, 45, 117, 115, 101, 114>>]

Fields(s) ==
    LET space(i)  == s[i] \in {9, 10, 11, 12, 13, 32}
        starts    == {i \in 1..Len(s) : ~space(i) /\ (i = 1 \/ space(i - 1))}
        ends      == {i \in 1..Len(s) : ~space(i) /\ (i = Len(s) \/ space(i + 1))}
        nth(set, k) == CHOOSE i \in set : Cardinality({j \in set : j < i}) = k - 1
    IN  [k \in 1..Cardinality(starts) |-> SubSeq(s, nth(starts, k), nth(ends, k))]

\* The second of exactly two fields whose first is "Bearer" in any case.
secondOfTwoFields(authHeader) ==
    LET second(parts) ==
            IF Len(parts) = 2
                 /\ EqualFold(parts[1], <<66, 101, 97, 114, 101, 114>>)
            THEN parts[2] ELSE <<>>
    IN  second(Fields(authHeader))

NoBearerNoToken ==
    (req.pc = "built" /\ req.form \in {"absent", "scheme-only", "basic"})
        => extractTokenFromHeader(req.r) = <<>>

\* C16: when an enabled middleware extracts no token from the request, the
\* context has authenticated = FALSE and auth_error = "missing or invalid
\* authorization header", and validateJWT is not called.
NoTokenExtracted ==
    (req.pc # "idle" /\ contextFunc.set /\ contextFunc.am.enabled
       /\ extractTokenFromHeader(req.r) = <<>>)
        => /\ contextKeyAuthenticated \in DOMAIN req.ctx
           /\ req.ctx[contextKeyAuthenticated] = FALSE
           /\ contextKeyAuthError \in DOMAIN req.ctx
           /\ req.ctx[contextKeyAuthError] = "missing or invalid authorization header"
           /\ validateJWTCalls(contextFunc.am, req.r) = 0

\* A request with "Authorization: Basic abcdef" reached an enabled middleware.
BasicSchemeRefused ==
    /\ req.pc = "built" /\ contextFunc.am.enabled /\ req.form = "basic"
    /\ extractTokenFromHeader(req.r) = <<>>
    /\ getAuthError(req.ctx) = "missing or invalid authorization header"

\* C17: when validateJWT returns an error for the token an enabled middleware
\* extracted, the context has authenticated = FALSE, no identity field, and
\* auth_error = "invalid token: " followed by the error of validateJWT.
VerificationFailureSurfaced ==
    (req.pc # "idle" /\ contextFunc.set /\ contextFunc.am.enabled
       /\ extractTokenFromHeader(req.r) # <<>>
       /\ validateJWT(contextFunc.am, extractTokenFromHeader(req.r)).err # "")
        => /\ contextKeyAuthenticated \in DOMAIN req.ctx
           /\ req.ctx[contextKeyAuthenticated] = FALSE
           /\ DOMAIN req.ctx \cap
                  {contextKeyUserID, contextKeyUsername, contextKeyRole} = {}
           /\ contextKeyAuthError \in DOMAIN req.ctx
           /\ req.ctx[contextKeyAuthError] =
                  "invalid token: "
                      \o validateJWT(contextFunc.am, extractTokenFromHeader(req.r)).err

\* The token "a.b" reached an enabled middleware as a bearer token.
TwoSegmentsSurfaced ==
    /\ req.pc = "built" /\ contextFunc.am.enabled /\ req.form = "two"
    /\ extractTokenFromHeader(req.r) = <<97, 46, 98>>
    /\ getAuthError(req.ctx) = "invalid token: invalid token format"

\* C18: when the bearer token of a request verifies and is not expired, the
\* context an enabled middleware builds has authenticated = TRUE, no
\* auth_error, and user_id, username and role equal to the claims in the
\* payload of the token.
AcceptedToken ==
    (trial.kind = "verify" /\ trial.res.err = ""
       /\ trial.at <= payloadClaims(trial.presented).ExpiresAt)
        => /\ contextKeyAuthenticated \in DOMAIN trial.ctx
           /\ trial.ctx[contextKeyAuthenticated] = TRUE
           /\ contextKeyAuthError \notin DOMAIN trial.ctx
           /\ getAuthError(trial.ctx) = ""
           /\ {contextKeyUserID, contextKeyUsername, contextKeyRole}
                  \subseteq DOMAIN trial.ctx
           /\ trial.ctx[contextKeyUserID] = payloadClaims(trial.presented).UserID
           /\ trial.ctx[contextKeyUsername] = payloadClaims(trial.presented).Username
           /\ trial.ctx[contextKeyRole] = payloadClaims(trial.presented).Role

\* A token issued for one hour was presented at once under its own secret.
FreshTokenAccepted ==
    /\ trial.kind = "verify" /\ trial.entry.kind = "issued"
    /\ trial.entry.hours = 1 /\ trial.at = trial.entry.iat
    /\ trial.secret = trial.entry.key
    /\ isAuthenticated(trial.ctx)
    /\ getUserID(trial.ctx) = trial.entry.userID
    /\ getRole(trial.ctx) = Role

\* C19: in every context the middleware builds, authenticated is set;
\* auth_error is set (and then not empty) only when authenticated is FALSE;
\* user_id, username and role are set only when authenticated is TRUE; and
\* the HTTP method is recorded in every branch, so that isHTTPRequest holds
\* for every request with a non-empty method.
AuthContextShape ==
    (req.pc # "idle" /\ contextFunc.set)
        => /\ contextKeyAuthenticated \in DOMAIN req.ctx
           /\ req.ctx[contextKeyAuthenticated] \in BOOLEAN
           /\ contextKeyAuthError \in DOMAIN req.ctx
                => /\ req.ctx[contextKeyAuthenticated] = FALSE
                   /\ req.ctx[contextKeyAuthError] # ""
           /\ DOMAIN req.ctx \cap
                  {contextKeyUserID, contextKeyUsername, contextKeyRole} # {}
                => req.ctx[contextKeyAuthenticated] = TRUE
           /\ contextKeyHTTPMethod \in DOMAIN req.ctx
           /\ req.ctx[contextKeyHTTPMethod] = req.r.Method
           /\ req.r.Method # <<>> => isHTTPRequest(req.ctx)

\* An expired token reached an enabled middleware in a GET request, and the
\* context records the method and the refusal.
ExpiredContextShaped ==
    /\ req.pc = "built" /\ contextFunc.am.enabled /\ req.form = "bearer"
    /\ req.entry.hours = -1 /\ req.r.Method = MethodGet
    /\ getAuthError(req.ctx) = "token expired"
    /\ ~isAuthenticated(req.ctx)
    /\ isHTTPRequest(req.ctx)

\* The pairs a handler can return: those of handleSendNotification, and a
\* nil result with a Go error.
AnyHandlerReturns ==
    HandlerReturns \cup {[result |-> NilResult, err |-> "handler failed"]}

\* C20: whenever the guard calls the handler, it calls it once, with the
\* context it was given, and returns the (result, err) pair of the handler
\* unchanged, for success and for failure.
GuardTransparent ==
    /\ req.pc = "built"
         => \A h \in AnyHandlerReturns :
              LET transparent(out) ==
                      /\ out.calls \in {0, 1}
                      /\ Len(out.handed) = out.calls
                      /\ out.calls = 1
                           => /\ out.handed = <<req.ctx>>
                              /\ out.result = h.result
                              /\ out.err = h.err
              IN  transparent(wrapWithAuth(config, req.ctx, h))
    /\ (req.pc = "done" /\ req.calls = 1)
         => [result |-> req.result, err |-> req.err] \in HandlerReturns

\* The handler was called and reported a failure, which the caller received.
FailurePassedThrough ==
    /\ req.pc = "done" /\ req.calls = 1
    /\ req.result = NewToolResultError("Failed to send notification: invalid token")
    /\ req.err = ""

\* C21: when authentication is enabled, by the flag or by
\* PUSHOVER_AUTH_ENABLED, and the secret is empty, the run of the server
\* ends with an error and nothing is served; hence an HTTP server with
\* authentication enabled has a middleware with a secret that is not empty.
FailFast ==
    /\ (boot.ran
          /\ (boot.authEnabledFlag
                \/ boot.env.PUSHOVER_AUTH_ENABLED \in {"true", "1"})
          /\ boot.env.PUSHOVER_AUTH_SECRET_KEY = <<>>)
         => /\ boot.err # ""
            /\ transport = "none"
            /\ req.pc = "idle"
    /\ (transport = "http" /\ config.AuthEnabled)
         => /\ contextFunc.set
            /\ contextFunc.am.enabled
            /\ contextFunc.am.secretKey # <<>>
            /\ config.AuthSecretKey # <<>>

\* The server was run with PUSHOVER_AUTH_ENABLED=true and no secret, in an
\* environment otherwise complete, and refused to start.
StartRefused ==
    /\ boot.ran /\ ~boot.authEnabledFlag
    /\ boot.env.PUSHOVER_AUTH_ENABLED = "true"
    /\ boot.env.PUSHOVER_AUTH_SECRET_KEY = <<>>
    /\ boot.env.APP_KEY # "" /\ boot.env.PUSHOVER_PRIORITY = <<>>
    /\ boot.transportMode = "http"
    /\ boot.err = "failed to load configuration: configuration validation failed: "
                      \o "PUSHOVER_AUTH_SECRET_KEY is required when authentication is enabled"
    /\ transport = "none"

\* The context of a request that is through the context function is the
\* context the function builds for that request alone, at the time the
\* request read the clock; and so is the decision of the guard.
FlightsAlone ==
    \A i \in 1..MaxFlights :
        LET alone(ctx) ==
                /\ flights[i].ctx = ctx
                /\ flights[i].pc = "served"
                     => flights[i].calls =
                            wrapWithAuth(config, ctx,
                                         CHOOSE h \in HandlerReturns : TRUE).calls
        IN  flights[i].pc \in {"guard", "served"}
                => alone(HTTPContextFunc(contextFunc.am, Background, flights[i].r,
                                         [sec |-> flights[i].readAt, nsec |-> 0]))

\* C22: for every interleaving of simultaneous requests, the secret and the
\* enabled flag of the middleware never change, and the context and the
\* decision of the guard for each request are those of that request
\* processed alone.
ConcurrentIsolation ==
    /\ []FlightsAlone
    /\ [][contextFunc' = contextFunc /\ config' = config]_vars

\* Two requests are in flight together: one was accepted and its handler
\* called, the other is refused for its signature.
AcceptedBesideRefused ==
    \E i, j \in 1..MaxFlights :
        /\ i # j
        /\ flights[i].pc = "served" /\ flights[i].calls = 1
        /\ isAuthenticated(flights[i].ctx)
        /\ getUserID(flights[i].ctx) = <<117>>
        /\ flights[j].pc = "guard"
        /\ getAuthError(flights[j].ctx) = "invalid token: invalid signature"

\* C23: every rejection by the guard of the server is an error result with
\* a nil Go error, whose text is "Authentication required: " followed by the
\* reason the middleware recorded, which is not empty and is "missing or
\* invalid authorization header", "token expired" or "invalid token: "
\* followed by the error of validateJWT.
RejectionDescriptive ==
    (req.pc = "done" /\ req.calls = 0)
        => /\ req.result # NilResult
           /\ req.result.IsError
           /\ req.err = ""
           /\ req.result.Text = "Authentication required: " \o getAuthError(req.ctx)
           /\ getAuthError(req.ctx) # ""
           /\ \/ getAuthError(req.ctx) = "missing or invalid authorization header"
              \/ getAuthError(req.ctx) = "token expired"
              \/ /\ validateJWT(contextFunc.am, extractTokenFromHeader(req.r)).err # ""
                 /\ getAuthError(req.ctx) =
                        "invalid token: "
                            \o validateJWT(contextFunc.am,
                                           extractTokenFromHeader(req.r)).err

\* A tampered token was refused by the guard with the reason of the codec.
TamperedRefusedWithReason ==
    /\ req.pc = "done" /\ req.calls = 0 /\ req.form = "tampered"
    /\ req.result = NewToolResultError(
           "Authentication required: invalid token: invalid signature")
    /\ req.err = ""

\* C24: every token GenerateJWT produces, through any entry point and for
\* any number of hours, has exp > iat.
IssuedExpiresLater ==
    \A e \in pool :
        e.kind = "issued"
            => payloadClaims(e.token).ExpiresAt > payloadClaims(e.token).IssuedAt

\* C25: a call of send_notification that fails a check (message missing,
\* message longer than 1024, priority not an integer or outside -2..2, expire
\* not an integer) returns a tool error with a nil Go error, makes no client
\* and never calls SendMessage; SendMessage is called at most once, and only
\* when every check passed; a failed send is reported as the tool error
\* "Failed to send notification".
failsCheck(args) ==
    LET p == GetString(args.priority, <<>>)
        e == GetString(args.expire, <<>>)
    IN  \/ args.message.kind # "string"
        \/ Len(args.message.val) > 1024
        \/ p # <<>> /\ (Atoi(p).err # "" \/ Atoi(p).val < -2 \/ Atoi(p).val > 2)
        \/ e # <<>> /\ Atoi(e).err # ""

ValidationPrecedesSend ==
    (sent.ran /\ sent.entry = "tool") =>
        /\ sent.out.err = ""
        /\ sent.out.sends <= 1
        /\ failsCheck(sent.args) =>
               /\ sent.out.result.IsError
               /\ sent.out.clients = 0
               /\ sent.out.sends = 0
        /\ sent.out.sends = 1 => ~failsCheck(sent.args)
        /\ (~failsCheck(sent.args) /\ sent.legacy.AppKey # "") => sent.out.sends = 1
        /\ (sent.out.sends = 1 /\ sent.out.result.IsError) =>
               SubSeq(sent.out.result.Text, 1, 27) = "Failed to send notification"

\* A call with a good message and the priority "5" was refused.
PriorityFiveRefused ==
    /\ sent.ran /\ sent.entry = "tool"
    /\ sent.args.message = [kind |-> "string", val |-> messageOf(2)]
    /\ sent.args.priority = [kind |-> "string", val |-> <<53>>]
    /\ sent.out.result = NewToolResultError("Priority must be between -2 and 2")
    /\ sent.out.sends = 0

\* C27: a priority in -2..2 passed with the request (the priority argument of
\* the tool, -p on the command line) is the priority of the message handed to
\* SendMessage, whatever the configured default, 0 included; the same for an
\* expire value passed with the request.
ExplicitOverridesDefault ==
    (sent.ran /\ sent.out.sends = 1) =>
        /\ sent.entry = "tool" =>
               LET p == GetString(sent.args.priority, <<>>)
                   e == GetString(sent.args.expire, <<>>)
               IN  /\ p # <<>> => sent.out.message.Priority = Atoi(p).val
                   /\ e # <<>> => sent.out.message.Expire = Atoi(e).val
        /\ sent.entry = "cli" =>
               /\ sent.flags.p.set => sent.out.message.Priority = sent.flags.p.val
               /\ sent.flags.e.set => sent.out.message.Expire = sent.flags.e.val

\* The values the endpoint is to use for a decoded request.
effective(request) ==
    [UserID |-> IF request.UserID = <<>> THEN <<100, 101, 102, 97, 117, 108, 116, 95, 117, 115, 101, 114>> ELSE request.UserID,
     Username |-> IF request.Username = <<>> THEN <<112, 117, 115, 104, 111, 118, 101, 114, 95, 117, 115, 101, 114>>
                  ELSE request.Username,
     Role |-> IF request.Role = <<>> THEN <<117, 115, 101, 114>> ELSE request.Role,
     ExpiresIn |-> IF request.ExpiresIn <= 0 THEN 24 ELSE request.ExpiresIn]

\* What the claim says of a POST: 400 and no token for a body that does not
\* decode; otherwise 200 and a token signed under the configured secret that
\* carries the effective values, which the response echoes.
postAnswered(r, w) ==
    IF Decode(r.Body).err # ""
    THEN w.status = 400 /\ w.token = <<>>
    ELSE LET e == effective(Decode(r.Body).request) IN
         /\ w.status = 200
         /\ w.token # <<>>
         /\ SignedUnder(w.token, config.AuthSecretKey)
         /\ payloadClaims(w.token).UserID = e.UserID
         /\ payloadClaims(w.token).Username = e.Username
         /\ payloadClaims(w.token).Role = e.Role
         /\ Decode(r.Body).request.ExpiresIn <= 0 =>
                payloadClaims(w.token).ExpiresAt
                    = payloadClaims(w.token).IssuedAt + 24 * 3600
         /\ w.user_id = e.UserID /\ w.username = e.Username /\ w.role = e.Role
         /\ w.expires_in = e.ExpiresIn

\* C26, as stated: on a server with authentication every request for
\* /generate-token with a method other than POST gets 405 and no token, and
\* a POST is answered as above; without authentication the endpoint is not
\* registered.
TokenEndpointContract ==
    reply.w.by # "none" =>
        /\ (config.AuthEnabled /\ reply.r.Method # MethodPost) =>
               reply.w.status = 405 /\ reply.w.token = <<>>
        /\ (config.AuthEnabled /\ reply.r.Method = MethodPost) =>
               postAnswered(reply.r, reply.w)
        /\ ~config.AuthEnabled => reply.w.by # "generate-token"

\* C26, amended: a request with a method other than POST gets no token, and
\* gets 405 when it reaches the endpoint; with CORS enabled (the default) an
\* OPTIONS request is answered 200 by the CORS wrapper and does not reach it.
\* The rest as stated.
TokenEndpointBehindCORS ==
    reply.w.by # "none" =>
        /\ (config.AuthEnabled /\ reply.r.Method # MethodPost) =>
               /\ reply.w.token = <<>>
               /\ IF config.HTTPCORSEnabled /\ reply.r.Method = MethodOptions
                  THEN reply.w.by = "cors" /\ reply.w.status = 200
                  ELSE reply.w.by = "generate-token" /\ reply.w.status = 405
        /\ (config.AuthEnabled /\ reply.r.Method = MethodPost) =>
               /\ reply.w.by = "generate-token"
               /\ postAnswered(reply.r, reply.w)
        /\ ~config.AuthEnabled => reply.w.by # "generate-token"

\* A POST of {} was answered with a token for default_user, good for 24
\* hours.
DefaultsIssued ==
    /\ config.AuthEnabled
    /\ reply.r.Method = MethodPost
    /\ reply.r.Body = object(<<>>)
    /\ reply.w.status = 200
    /\ reply.w.user_id = <<100, 101, 102, 97, 117, 108, 116, 95, 117, 115, 101, 114>>
    /\ reply.w.expires_in = 24
    /\ reply.w.token # <<>>

\* An OPTIONS request was answered 200 by the CORS wrapper.
PreflightAnswered ==
    /\ config.AuthEnabled /\ config.HTTPCORSEnabled
    /\ reply.r.Method = MethodOptions
    /\ reply.w.by = "cors" /\ reply.w.status = 200

\* C29: on a server with authentication a POST to /generate-token with a
\* body that decodes is given a token whether or not it carries an
\* Authorization header, and a tool call that presents that token as a bearer
\* token no later than its expiry is authenticated and the operation is
\* invoked, once.
IssuedWithoutCredential ==
    /\ (/\ config.AuthEnabled
        /\ reply.r.Method = MethodPost
        /\ Decode(reply.r.Body).err = "")
           => /\ reply.w.status = 200
              /\ reply.w.token # <<>>
              /\ \E e \in pool : e.kind = "endpoint" /\ e.token = reply.w.token
    /\ (/\ req.pc = "done"
        /\ req.entry.kind = "endpoint"
        /\ req.form = "bearer"
        /\ req.at <= req.entry.exp)
           => /\ isAuthenticated(req.ctx)
              /\ req.calls = 1

\* A token asked for without an Authorization header was presented and the
\* operation ran.
UncredentialedTokenUsed ==
    /\ reply.r.Method = MethodPost
    /\ reply.r.Authorization = <<>>
    /\ req.pc = "done"
    /\ req.entry.kind = "endpoint"
    /\ req.entry.token = reply.w.token
    /\ req.form = "bearer"
    /\ isAuthenticated(req.ctx)
    /\ req.calls = 1

\* C28: on the HTTP transport the context function is installed exactly when
\* config.AuthEnabled, and then with enabled = TRUE, the value the guard
\* consults; no request leaves the middleware through its disabled branch
\* (a method recorded, neither authenticated nor an auth_error); and with
\* authentication disabled an HTTP request reaches the guard with no method
\* recorded and the operation is invoked.
WiringAgreesWithGuard ==
    /\ transport = "http" => (contextFunc.set <=> config.AuthEnabled)
    /\ contextFunc.set =>
           /\ contextFunc.am.enabled
           /\ contextFunc.am.enabled = config.AuthEnabled
    /\ (req.pc # "idle" /\ isHTTPRequest(req.ctx)) =>
           isAuthenticated(req.ctx) \/ getAuthError(req.ctx) # ""
    /\ (transport = "http" /\ ~config.AuthEnabled /\ req.pc # "idle") =>
           /\ ~isHTTPRequest(req.ctx)
           /\ req.pc = "done" => req.calls = 1

\* With authentication disabled a request over HTTP that carried no
\* Authorization header was executed.
OpenServerExecuted ==
    /\ transport = "http"
    /\ ~config.AuthEnabled
    /\ req.pc = "done"
    /\ req.form = "absent"
    /\ ~isHTTPRequest(req.ctx)
    /\ req.calls = 1

\* The context function has finished with request i, which carried a token
\* in circulation and came to the expiry check.
checkedFlight(i) ==
    /\ flights[i].pc \in {"guard", "served"}
    /\ flights[i].readAt > 0
    /\ \E e \in pool : e.token = flights[i].token

\* C30: the clock never goes backwards; of two requests with the same token,
\* if the one that read the clock first was refused as expired so was the
\* other; and a request that reads the clock no later than the expiry of its
\* token is admitted and its operation invoked, whatever other requests
\* carried the token before or beside it.
ExpiryPermanent ==
    /\ now >= StartTime
    /\ \A i \in 1..MaxFlights : flights[i].readAt <= now
    /\ \A i, j \in 1..MaxFlights :
           (/\ checkedFlight(i) /\ checkedFlight(j)
            /\ flights[i].token = flights[j].token
            /\ flights[i].readAt <= flights[j].readAt
            /\ getAuthError(flights[i].ctx) = "token expired")
               => /\ getAuthError(flights[j].ctx) = "token expired"
                  /\ ~isAuthenticated(flights[j].ctx)
                  /\ flights[j].calls = 0
    /\ \A i \in 1..MaxFlights :
           (checkedFlight(i) /\ config.AuthEnabled
            /\ flights[i].readAt <= flights[i].claims.ExpiresAt)
               => /\ isAuthenticated(flights[i].ctx)
                  /\ flights[i].pc = "served" => flights[i].calls = 1

\* The clock moves forward only.
ClockMonotone == [][now' >= now]_vars

\* One token was admitted on two requests, and refused as expired on a later
\* one while an earlier request with it stood admitted.
AdmittedThenExpired ==
    \E i, j \in 1..MaxFlights :
        /\ checkedFlight(i) /\ checkedFlight(j)
        /\ flights[i].token = flights[j].token
        /\ flights[i].pc = "served" /\ flights[i].calls = 1
        /\ isAuthenticated(flights[i].ctx)
        /\ flights[i].readAt < flights[j].readAt
        /\ getAuthError(flights[j].ctx) = "token expired"

\* One token stood admitted on two requests at once.
AdmittedTwice ==
    \E i, j \in 1..MaxFlights :
        /\ i # j
        /\ checkedFlight(i) /\ checkedFlight(j)
        /\ flights[i].token = flights[j].token
        /\ flights[i].pc = "served" /\ flights[i].calls = 1
        /\ flights[j].pc = "served" /\ flights[j].calls = 1

====
